---------------------------- MODULE Spec2Model ----------------------------
(***************************************************************************)
(* VidLook (pikaimandal/vidlook): the multi-source fetch / fallback /      *)
(* cache engine of src/lib/invidious-api.ts.                               *)
(*                                                                         *)
(* The parts of the engine that share no state are checked under their own *)
(* specifications:                                                         *)
(*   Spec         the category cache and paginator (fetchVideosByCategory, *)
(*                fetchMoreVideos), keys "category_<name>";                *)
(*   SpecFetch    the retrying fetch engine (getInstance,                  *)
(*                fetchFromInvidiousAPI);                                  *)
(*   SpecSearch   the engine under its callers searchVideos and            *)
(*                fetchMoreSearchResults, keys "search_<query>";           *)
(*   SpecResolve  the stream resolution chain (getVideoDetails).           *)
(* Every network request is one step: the request is sent and its response *)
(* (or its failure) is handled; the clock may advance between steps.       *)
(***************************************************************************)
EXTENDS Integers, Sequences, FiniteSets, TLC

VARIABLES
    \* module state of invidious-api.ts
    videoCache,            \* cache key -> sequence of Video (a key may be absent)
    cacheTimestamps,       \* cache key -> time of the last successful refresh
    nextPageTokens,        \* cache key -> "null"
    currentInstanceIndex,  \* the provider cursor
    now,                   \* Date.now(), in units of CACHE_EXPIRATION
    \* one invocation of fetchVideosByCategory / fetchMoreVideos
    c_pc, c_op, c_cat, c_count, c_reset, c_i, c_requests, c_outcomes, c_ret,
    \* one invocation of searchVideos / fetchMoreSearchResults / fetchFromInvidiousAPI
    s_pc, s_op, s_query, s_count, s_page, s_retries, attemptsLeft, lastError,
    instancesChecked, s_probes, s_instance, s_requests, s_delays, s_engine, s_data,
    s_ret,
    \* one invocation of getVideoDetails
    r_pc, r_videoId, r_i, r_requests, r_response, r_ret, r_throws,
    \* one application of a normalizer to a raw provider item
    n_pc, n_family, n_item, n_record,
    \* one request handled by the relay, app/api/proxy/route.ts
    p_pc, p_method, p_url, p_allowFallback, p_target, p_requests, p_outcome,
    p_response,
    \* INVIDIOUS_CONFIG.ENABLE_FALLBACK as read by the module, and the outcome
    \* of the one probe of the getInstance of unnamed/part_000
    enableFallback, probeOk,
    \* one invocation of getVideoDetails or fetchVideosByCategory at the grain
    \* of its awaits: where it is, the endpoint it is at, the requests in
    \* flight, those issued and those settled, and how the last one settled
    q_pc, q_op, q_family, q_i, q_outstanding, q_issued, q_settled, q_how,
    \* the two invocations of fetchVideosByCategory("Trending", _, true) the
    \* feed starts when it mounts, each a function of the caller: where it is,
    \* the endpoint it is at, the records it appended, what it returned
    o_pc, o_i, o_batch, o_ret,
    \* debouncedSearchVideos: the call whose timer is pending in searchTimeout
    \* (0: none), the time since the last call (saturating at the delay),
    \* whether every call so far came within the delay of the one before it,
    \* the calls made, the calls for which searchVideos was invoked, those
    \* whose searchVideos is in flight, and the callbacks invoked
    d_timer, d_since, d_burst, d_calls, d_invoked, d_inflight, d_delivered,
    \* one VideoPlayer: whether it is mounted, its videoId prop, its
    \* errorRetryCount, the runs of its loading effect (each with the
    \* dependencies it saw, its isMounted flag, whether its getVideoDetails
    \* is pending and whether it went on past `if (!isMounted) return`), its
    \* state, and the run that settled last (0: none)
    v_mounted, v_videoId, v_errorRetryCount, v_runs, v_state, v_settled,
    \* the VideoFeed: activeCategory, searchQuery, the query waiting in the
    \* debounce timer, the fetches it started (kind, target, attempt and
    \* status), and the list in `videos` (the fetch that set it, and
    \* whether it has records)
    f_activeCategory, f_searchQuery, f_timer, f_fetches, f_videos,
    \* one invocation of the fetchMoreVideos of youtube-api.ts: where it is,
    \* its category and count, currentCount, the requests it issued, the
    \* response it got, what it returned
    y_pc, y_cat, y_count, y_currentCount, y_requests, y_response, y_ret

cacheVars == <<videoCache, cacheTimestamps, nextPageTokens, now>>
catVars == <<c_pc, c_op, c_cat, c_count, c_reset, c_i, c_requests, c_outcomes, c_ret>>
searchVars == <<s_pc, s_op, s_query, s_count, s_page, s_retries, attemptsLeft,
                lastError, instancesChecked, s_probes, s_instance, s_requests,
                s_delays, s_engine, s_data, s_ret>>
resolveVars == <<r_pc, r_videoId, r_i, r_requests, r_response, r_ret, r_throws>>
normVars == <<n_pc, n_family, n_item, n_record>>
relayVars == <<p_pc, p_method, p_url, p_allowFallback, p_target, p_requests,
               p_outcome, p_response>>
optVars == <<enableFallback, probeOk>>
seqVars == <<q_pc, q_op, q_family, q_i, q_outstanding, q_issued, q_settled, q_how>>
overlapVars == <<o_pc, o_i, o_batch, o_ret>>
debounceVars == <<d_timer, d_since, d_burst, d_calls, d_invoked, d_inflight, d_delivered>>
cursorVars == <<y_pc, y_cat, y_count, y_currentCount, y_requests, y_response, y_ret>>
playerVars == <<v_mounted, v_videoId, v_errorRetryCount, v_runs, v_state, v_settled>>
feedVars == <<f_activeCategory, f_searchQuery, f_timer, f_fetches, f_videos>>
viewVars == <<playerVars, feedVars>>
uiVars == <<debounceVars, cursorVars, viewVars>>
vars == <<cacheVars, currentInstanceIndex, catVars, searchVars, resolveVars, normVars,
          relayVars, optVars, seqVars, overlapVars, uiVars>>

---------------------------------------------------------------------------
(* Bounds of the model.                                                    *)

\* Length of INVIDIOUS_INSTANCES (10 in the source; every loop over the list
\* is uniform in its length).
NumInstances == 3
\* Length of each pipedInstances list (3 and 4 in the source).
NumPiped == 2
\* Largest batch of items one provider response carries.
MaxBatch == 2
\* Largest count a caller asks for.
MaxCount == 2
\* The clock runs from 1 to MaxTime.
MaxTime == 3
\* Longest format collection of a detail response.
MaxFormats == 1
\* fetchMoreSearchResults is called while the entry holds fewer records.
MaxCached == 3

---------------------------------------------------------------------------
(* Configuration (src/lib/config.ts).                                      *)

\* INVIDIOUS_CONFIG.CACHE_DURATION: 15 minutes; the clock counts in units
\* of 15 minutes.
CACHE_EXPIRATION == 1
\* INVIDIOUS_CONFIG.MAX_RETRIES
MAX_RETRIES == 3
\* INVIDIOUS_CONFIG.ENABLE_FALLBACK
ENABLE_FALLBACK == TRUE

INVIDIOUS_INSTANCES == 0 .. (NumInstances - 1)
PipedInstances == 0 .. (NumPiped - 1)

---------------------------------------------------------------------------
(* Values.                                                                 *)

\* A JavaScript undefined string field.
Undef == "undefined"
\* A view count that is not a number (undefined, NaN).
NaN == -1

IsPrefix(s, t) == Len(s) <= Len(t) /\ SubSeq(t, 1, Len(s)) = s

\* Array.prototype.slice(0, n)
Slice(s, n) == SubSeq(s, 1, IF n < Len(s) THEN n ELSE Len(s))

RECURSIVE SeqFilter(_, _)
\* Array.prototype.filter keeping the elements in the set keep
SeqFilter(s, keep) ==
    IF s = <<>> THEN <<>>
    ELSE (IF Head(s) \in keep THEN <<Head(s)>> ELSE <<>>) \o SeqFilter(Tail(s), keep)

Range(s) == {s[j] : j \in 1 .. Len(s)}

SeqsUpTo(S, n) == UNION {[1 .. m -> S] : m \in 0 .. n}

\* x || d on strings
OrElse(x, d) == IF x = Undef \/ x = "" THEN d ELSE x

---------------------------------------------------------------------------
(* Canonical record normalizer.                                            *)

\* A rendered view count: "<int> views", "<int>.<dec>K views", "<int>.<dec>M views"
Views(int, dec, unit) == [int |-> int, dec |-> dec, unit |-> unit]
NoDec == -1

\* The counts, of those drawn below, whose quotient x / unit lies halfway
\* between two tenths and is, as an IEEE double, below the exact quotient
\* (1150 / 1000 is 1.149999999999999911...): toFixed(1) rounds these down.
DoubleBelowTie == {<<1150, 1000>>, <<1150000, 1000000>>}

\* (x / unit).toFixed(1), in tenths: the tenth nearest to the double x / unit,
\* the larger one when the double is exactly halfway
ToFixed1(x, unit) ==
    IF <<x, unit>> \in DoubleBelowTie THEN (x * 10) \div unit
    ELSE (x * 10 + unit \div 2) \div unit

\* formatViewCount with > for >= in its two comparisons.
formatViewCount_Strict(viewCount) ==
    IF viewCount = NaN THEN Views(0, NoDec, "")
    ELSE IF viewCount > 1000000
         THEN Views(ToFixed1(viewCount, 1000000) \div 10,
                    ToFixed1(viewCount, 1000000) % 10, "M")
    ELSE IF viewCount > 1000
         THEN Views(ToFixed1(viewCount, 1000) \div 10,
                    ToFixed1(viewCount, 1000) % 10, "K")
    ELSE Views(viewCount, NoDec, "")

formatViewCount(viewCount) ==
    IF viewCount = NaN THEN Views(0, NoDec, "")
    ELSE IF viewCount >= 1000000
         THEN Views(ToFixed1(viewCount, 1000000) \div 10,
                    ToFixed1(viewCount, 1000000) % 10, "M")
    ELSE IF viewCount >= 1000
         THEN Views(ToFixed1(viewCount, 1000) \div 10,
                    ToFixed1(viewCount, 1000) % 10, "K")
    ELSE Views(viewCount, NoDec, "")

formatInvidiousVideo(item) ==
    [id        |-> item.videoId,
     title     |-> OrElse(item.title, "Untitled Video"),
     channel   |-> OrElse(item.author, "Unknown Channel"),
     views     |-> formatViewCount(item.viewCount),
     timestamp |-> OrElse(item.publishedText, "")]

\* Items an Invidious provider may send in a list response.
InvidiousItems ==
    { [videoId |-> "kJQP7kiw5Fk", title |-> "Despacito", author |-> "Luis Fonsi",
       viewCount |-> 8100000, publishedText |-> "7 years ago", type |-> "video"],
      [videoId |-> "vidB", title |-> Undef, author |-> Undef,
       viewCount |-> NaN, publishedText |-> Undef, type |-> "video"] }

\* Items a search response may carry: a video, and an item that is no video.
SearchItems ==
    { [videoId |-> "kJQP7kiw5Fk", title |-> "Despacito", author |-> "Luis Fonsi",
       viewCount |-> 8100000, publishedText |-> "7 years ago", type |-> "video"],
      [videoId |-> Undef, title |-> Undef, author |-> "Some Channel",
       viewCount |-> NaN, publishedText |-> Undef, type |-> "channel"] }

\* The url of a Piped list item, as the pieces split() sees.
PipedUrls == { <<"/", "watch?v=", "kJQP7kiw5Fk">> }

\* url.split('watch?v=')[1]
AfterWatch(url) ==
    IF \E j \in 1 .. Len(url) : url[j] = "watch?v="
    THEN LET j == CHOOSE k \in 1 .. Len(url) :
                     url[k] = "watch?v=" /\ \A m \in 1 .. (k - 1) : url[m] # "watch?v="
             rest == SubSeq(url, j + 1, Len(url))
         IN  IF rest = <<>> THEN "" ELSE Head(rest)
    ELSE Undef

\* url.split('/').pop()
LastSegment(url) == IF url = <<>> \/ url[Len(url)] = "/" THEN "" ELSE url[Len(url)]

formatPipedVideo(item) ==
    [id        |-> OrElse(AfterWatch(item.url), LastSegment(item.url)),
     title     |-> OrElse(item.title, "Untitled Video"),
     channel   |-> OrElse(item.uploaderName, "Unknown Channel"),
     views     |-> formatViewCount(IF item.views = NaN THEN 0 ELSE item.views),
     timestamp |-> OrElse(item.uploadedDate, "")]

PipedItems ==
    { [url |-> u, title |-> "A Piped video", uploaderName |-> Undef,
       views |-> 999, uploadedDate |-> "1 day ago"] : u \in PipedUrls }

\* item.url of a Piped list item that has no url: undefined
AbsentUrl == <<Undef>>

\* Line 363: item.url.split(...) on an item without url is a TypeError.
PipedMappingThrows(item) == item.url = AbsentUrl

\* The instant of formatting, new Date() (youtube-api.ts line 129), in seconds.
Clock == 2 * 31104000
\* item.snippet.publishedAt absent (or item.snippet absent)
NoDate == -1
\* item.statistics.viewCount absent (or item.statistics absent)
NoCount == -2

\* youtube-api.ts lines 128-147: formatTimeAgo, of the seconds elapsed.
formatTimeAgo(diffInSeconds) ==
    LET diffInMinutes == diffInSeconds \div 60
        diffInHours   == diffInMinutes \div 60
        diffInDays    == diffInHours \div 24
        diffInMonths  == diffInDays \div 30
        diffInYears   == diffInMonths \div 12
    IN  IF diffInSeconds < 60 THEN ToString(diffInSeconds) \o " seconds ago"
        ELSE IF diffInMinutes < 60 THEN ToString(diffInMinutes) \o " minutes ago"
        ELSE IF diffInHours < 24 THEN ToString(diffInHours) \o " hours ago"
        ELSE IF diffInDays < 30 THEN ToString(diffInDays) \o " days ago"
        ELSE IF diffInMonths < 12 THEN ToString(diffInMonths) \o " months ago"
        ELSE ToString(diffInYears) \o " years ago"

\* The views of a record whose item has no view count: "Loading..."
Loading == [int |-> 0, dec |-> NoDec, unit |-> "Loading..."]

\* youtube-api.ts lines 104-112.  item.id is a string, or an object that may
\* hold videoId, or absent; a field of an absent snippet or statistics reads
\* as absent (item.snippet?.title).  viewCount is the string parsed, NaN for
\* one that is no number.
formatVideoItem(item) ==
    [id        |-> IF item.id.kind = "string" THEN item.id.value
                   ELSE OrElse(item.id.value, ""),
     title     |-> OrElse(item.title, "Untitled Video"),
     channel   |-> OrElse(item.channelTitle, "Unknown Channel"),
     views     |-> IF item.viewCount = NoCount THEN Loading
                   ELSE formatViewCount(item.viewCount),
     timestamp |-> IF item.publishedAt = NoDate THEN ""
                   ELSE formatTimeAgo(Clock - item.publishedAt)]

\* Raw items with every subset of the fields a normalizer reads absent.
RawInvidiousItems ==
    [videoId : {Undef, "kJQP7kiw5Fk"}, title : {Undef, "Despacito"},
     author : {Undef, "Luis Fonsi"}, viewCount : {NaN, 999, 8100000},
     publishedText : {Undef, "7 years ago"}, type : {"video"}]

RawPipedItems ==
    [url : {AbsentUrl, <<>>, <<"/", "watch?v=", "kJQP7kiw5Fk">>,
            <<"/", "video", "/", "kJQP7kiw5Fk">>},
     title : {Undef, "A Piped video"}, uploaderName : {Undef, "Somebody"},
     views : {NaN, 999}, uploadedDate : {Undef, "1 day ago"}]

Ages == {0, 59, 60, 3600, 86400, 2592000, 31104000}

RawYouTubeItems ==
    [id : {[kind |-> "string", value |-> "kJQP7kiw5Fk"],
           [kind |-> "object", value |-> "kJQP7kiw5Fk"],
           [kind |-> "object", value |-> Undef],
           [kind |-> "absent", value |-> Undef]},
     title : {Undef, "Despacito"}, channelTitle : {Undef, "Luis Fonsi"},
     viewCount : {NoCount, NaN, 999, 8100000},
     publishedAt : {NoDate} \cup {Clock - a : a \in Ages}]

NoItem == [type |-> "none"]
NoRecord == [id |-> "", title |-> "", channel |-> "",
             views |-> Views(0, NoDec, ""), timestamp |-> ""]

\* data.map(formatInvidiousVideo), for one item (lines 314, 473, 585).
formatInvidiousVideo_Apply ==
    /\ n_pc = "raw" /\ n_family = "invidious"
    /\ n_record' = formatInvidiousVideo(n_item)
    /\ n_pc' = "done"
    /\ UNCHANGED <<cacheVars, currentInstanceIndex, catVars, searchVars, resolveVars,
                   n_family, n_item, relayVars, optVars, seqVars, overlapVars, uiVars>>

\* Lines 362-369: the mapping of one Piped item; without a url it throws into
\* the catch of line 381 and no record is made.
PipedMapping_Apply ==
    /\ n_pc = "raw" /\ n_family = "piped"
    /\ IF PipedMappingThrows(n_item)
       THEN n_pc' = "thrown" /\ UNCHANGED n_record
       ELSE n_pc' = "done" /\ n_record' = formatPipedVideo(n_item)
    /\ UNCHANGED <<cacheVars, currentInstanceIndex, catVars, searchVars, resolveVars,
                   n_family, n_item, relayVars, optVars, seqVars, overlapVars, uiVars>>

\* data.items.map(formatVideoItem), for one item.
formatVideoItem_Apply ==
    /\ n_pc = "raw" /\ n_family = "youtube"
    /\ n_record' = formatVideoItem(n_item)
    /\ n_pc' = "done"
    /\ UNCHANGED <<cacheVars, currentInstanceIndex, catVars, searchVars, resolveVars,
                   n_family, n_item, relayVars, optVars, seqVars, overlapVars, uiVars>>

\* View counts around the thresholds of formatViewCount, and counts halfway
\* between two tenths.
Spread == 12
Counts ==
    (0 .. Spread) \cup ((1000 - Spread) .. (1000 + Spread))
      \cup ((1000000 - Spread) .. (1000000 + Spread))
      \cup {1050, 1150, 1250, 999949, 999950, 1050000, 1150000, 1250000, 8100000}

\* The strings youtube-api.ts hands to its formatViewCount, as characters.
CountStrings ==
    { <<>>, <<"a", "b", "c">>, <<"0">>, <<"9", "9", "9">>, <<"1", "0", "0", "0">>,
      <<"1", "5", "0", "0">>, <<"1", "2", "x">>, <<"x", "1", "2">>,
      <<"9", "9", "9", "9", "9", "9">>, <<"1", "0", "0", "0", "0", "0", "0">> }

IsDigit(c) == \E d \in 0 .. 9 : ToString(d) = c
DigitValue(c) == CHOOSE d \in 0 .. 9 : ToString(d) = c

\* The value of a string of digits.
RECURSIVE DigitsValue(_)
DigitsValue(str) ==
    IF str = <<>> THEN 0
    ELSE DigitsValue(SubSeq(str, 1, Len(str) - 1)) * 10 + DigitValue(str[Len(str)])

\* youtube-api.ts line 116: parseInt(viewCount, 10), the value of the longest
\* prefix of digits, NaN when the string does not begin with a digit.
parseInt(str) ==
    LET digits == {k \in 0 .. Len(str) : \A j \in 1 .. k : IsDigit(str[j])}
        longest == CHOOSE k \in digits : \A m \in digits : m <= k
    IN  IF longest = 0 THEN NaN ELSE DigitsValue(SubSeq(str, 1, longest))

\* invidious-api.ts lines 130-140: formatViewCount of a number.
formatViewCount_Apply ==
    /\ n_pc = "raw" /\ n_family = "count"
    /\ n_record' = [NoRecord EXCEPT !.views = formatViewCount(n_item.viewCount)]
    /\ n_pc' = "done"
    /\ UNCHANGED <<cacheVars, currentInstanceIndex, catVars, searchVars, resolveVars,
                   n_family, n_item, relayVars, optVars, seqVars, overlapVars, uiVars>>

\* youtube-api.ts lines 115-126: formatViewCount of a string.
formatViewCount_Parse ==
    /\ n_pc = "raw" /\ n_family = "countString"
    /\ n_record' = [NoRecord EXCEPT !.views = formatViewCount(parseInt(n_item.viewCount))]
    /\ n_pc' = "done"
    /\ UNCHANGED <<cacheVars, currentInstanceIndex, catVars, searchVars, resolveVars,
                   n_family, n_item, relayVars, optVars, seqVars, overlapVars, uiVars>>

FALLBACK_VIDEOS ==
    [Trending |-> << [id |-> "dQw4w9WgXcQ",
                      title |-> "Rick Astley - Never Gonna Give You Up (Official Music Video)",
                      channel |-> "Rick Astley",
                      views |-> Views(1, 2, "B"), timestamp |-> "14 years ago"],
                     [id |-> "9bZkp7q19f0",
                      title |-> "PSY - GANGNAM STYLE M/V",
                      channel |-> "officialpsy",
                      views |-> Views(4, 6, "B"), timestamp |-> "11 years ago"] >>,
     Music |-> << [id |-> "kJQP7kiw5Fk",
                   title |-> "Luis Fonsi - Despacito ft. Daddy Yankee",
                   channel |-> "Luis Fonsi",
                   views |-> Views(8, 1, "B"), timestamp |-> "7 years ago"],
                  [id |-> "RgKAFK5djSk",
                   title |-> "Wiz Khalifa - See You Again ft. Charlie Puth [Official Video]",
                   channel |-> "Wiz Khalifa",
                   views |-> Views(5, 8, "B"), timestamp |-> "8 years ago"] >>]

HasFallback(category) == category \in DOMAIN FALLBACK_VIDEOS

---------------------------------------------------------------------------
(* Cache bookkeeping.                                                      *)

Categories == {"Music", "News"}
Queries == {"foo"}
CategoryKey(category) == <<"category", category>>
SearchKey(query) == <<"search", query>>

\* videoCache[cacheKey] is set
Cached(key) == key \in DOMAIN videoCache
\* videoCache[cacheKey] = value
Put(f, key, value) == (key :> value) @@ f

\* isCacheExpired with >= for >: an entry exactly CACHE_EXPIRATION old counts
\* as expired.
isCacheExpired_Eager(cacheKey) ==
    IF cacheKey \notin DOMAIN cacheTimestamps \/ cacheTimestamps[cacheKey] = 0
    THEN TRUE
    ELSE now - cacheTimestamps[cacheKey] >= CACHE_EXPIRATION

\* isCacheExpired without the test of line 144: a key without a timestamp
\* counts as fresh.
isCacheExpired_NoTimestamp(cacheKey) ==
    IF cacheKey \notin DOMAIN cacheTimestamps \/ cacheTimestamps[cacheKey] = 0
    THEN FALSE
    ELSE now - cacheTimestamps[cacheKey] > CACHE_EXPIRATION

isCacheExpired(cacheKey) ==
    IF cacheKey \notin DOMAIN cacheTimestamps \/ cacheTimestamps[cacheKey] = 0
    THEN TRUE
    ELSE now - cacheTimestamps[cacheKey] > CACHE_EXPIRATION

\* What one list request to a provider can come to.
\* "network": fetch rejects; "timeout": the abort timer fires; "status":
\* !response.ok; "badjson": response.json() rejects.
Failures == {"network", "timeout", "status", "badjson"}
Failure(kind) == [kind |-> kind, data |-> <<>>]
\* a response that parsed: data is the array received (a payload that is no
\* array is kind "object")
Parsed(data) == [kind |-> "json", data |-> data]
NotArray == [kind |-> "object", data |-> <<>>]

CategoryResponses ==
    {Failure(k) : k \in Failures} \cup {NotArray}
      \cup {Parsed(d) : d \in SeqsUpTo(InvidiousItems, MaxBatch)}
PipedResponses ==
    {Failure(k) : k \in Failures} \cup {NotArray}
      \cup {Parsed(d) : d \in SeqsUpTo(PipedItems, MaxBatch)}

\* The category request without its region parameter.
CategoryRequest_NoRegion(category) ==
    [path |-> "trending", region |-> Undef,
     type |-> IF category = "Music" THEN "music"
              ELSE IF category = "Gaming" THEN "gaming"
              ELSE IF category = "News" THEN "news"
              ELSE IF category = "Movies" THEN "movies" ELSE Undef]

\* The logical endpoint and parameters of a category (lines 264-285, 344-349).
CategoryRequest(category) ==
    [path |-> "trending", region |-> "US",
     type |-> IF category = "Music" THEN "music"
              ELSE IF category = "Gaming" THEN "gaming"
              ELSE IF category = "News" THEN "news"
              ELSE IF category = "Movies" THEN "movies" ELSE Undef]
PipedCategoryRequest(category) ==
    [path |-> "trending",
     region |-> IF category = "Music" THEN "music"
                ELSE IF category = "Gaming" THEN "gaming"
                ELSE IF category = "News" THEN "news"
                ELSE IF category = "Movies" THEN "movies" ELSE Undef,
     type |-> Undef]
PopularRequest == [path |-> "popular", region |-> Undef, type |-> Undef]

Request(family, instance, endpoint) ==
    [family |-> family, instance |-> instance, endpoint |-> endpoint]

---------------------------------------------------------------------------
(* Category cache and paginator: fetchVideosByCategory, fetchMoreVideos.   *)

Idle(pc) == pc \in {"idle", "done", "thrown"}

\* A behaviour follows the calls on one cache key: a handler reads and writes
\* videoCache, cacheTimestamps and nextPageTokens at its own cacheKey only, so
\* calls on other keys change nothing this key's calls can see.
SameKey(last, this) == last \in {"none", this}

\* data.map(formatInvidiousVideo)
FormatInvidious(data) == [j \in 1 .. Len(data) |-> formatInvidiousVideo(data[j])]
\* data.map(item => ({ id: item.url.split(...) ... }))
FormatPiped(data) == [j \in 1 .. Len(data) |-> formatPipedVideo(data[j])]

\* videoCache[cacheKey], [] when the key is not set (lines 317-319, 479-481)
Entry(key) == IF Cached(key) THEN videoCache[key] ELSE <<>>

\* How the responses of a call of fetchVideosByCategory went, while none has
\* brought records: "empty" for an ok response carrying the array [],
\* "failed" for a rejected or aborted fetch, a non-ok status, a body that does
\* not parse or is no array; {"records"} once a response has brought records.
Outcome(resp) ==
    IF resp.kind = "json" THEN (IF resp.data = <<>> THEN "empty" ELSE "records")
    ELSE "failed"
Seen(outcomes, resp) ==
    IF Outcome(resp) = "records" THEN {"records"} ELSE outcomes \cup {Outcome(resp)}

\* Array.isArray(data) && data.length > 0
NonEmptyArray(resp) == resp.kind = "json" /\ Len(resp.data) > 0

\* The new records put in front of the entry.
AppendToCache_Prepend(key, newVideos) == Put(videoCache, key, newVideos \o Entry(key))

\* videoCache[cacheKey] = [...videoCache[cacheKey], ...newVideos]
AppendToCache(key, newVideos) == Put(videoCache, key, Entry(key) \o newVideos)

\* newVideos.filter(v => !existingIds.includes(v.id))
UniqueNew(key, newVideos) ==
    SeqFilter(newVideos,
              {v \in Range(newVideos) : \A j \in 1 .. Len(Entry(key)) : Entry(key)[j].id # v.id})

\* Lines 247-258: reset or expiry clears the entry; enough cached records are
\* returned without a request; otherwise the loop over the instances begins.
fetchVideosByCategory_Start(category, count, resetCache) ==
    LET key == CategoryKey(category)
        clear == resetCache \/ isCacheExpired(key)
        cache1 == IF clear THEN Put(videoCache, key, <<>>) ELSE videoCache
        hit == key \in DOMAIN cache1 /\ Len(cache1[key]) >= count
    IN  /\ Idle(c_pc) /\ SameKey(c_cat, category)
        /\ c_op' = "category" /\ c_cat' = category /\ c_count' = count
        /\ c_reset' = resetCache
        /\ videoCache' = cache1
        /\ nextPageTokens' = IF clear THEN Put(nextPageTokens, key, "null")
                                       ELSE nextPageTokens
        /\ c_requests' = <<>> /\ c_i' = 0 /\ c_outcomes' = {}
        /\ c_pc' = IF hit THEN "done" ELSE "invidious"
        /\ c_ret' = IF hit THEN Slice(cache1[key], count) ELSE <<>>
        /\ UNCHANGED <<cacheTimestamps, now, currentInstanceIndex, searchVars, resolveVars, normVars, relayVars, optVars, seqVars, overlapVars, uiVars>>

\* The end of fetchVideosByCategory raising the error whether or not the
\* category has static default records.
CategoryFallback_Throws(key) ==
    /\ c_pc' = "thrown" /\ c_ret' = <<>>
    /\ UNCHANGED videoCache

\* Lines 389-406: the static default records, or the terminal error.
CategoryFallback(key) ==
    IF HasFallback(c_cat)
    THEN /\ videoCache' = AppendToCache(key, FALLBACK_VIDEOS[c_cat])
         /\ c_ret' = Slice(Entry(key) \o FALLBACK_VIDEOS[c_cat], c_count)
         /\ c_pc' = "done"
    ELSE /\ c_pc' = "thrown" /\ c_ret' = <<>>
         /\ UNCHANGED videoCache

\* Lines 261-330: one pass of the loop over INVIDIOUS_INSTANCES.
fetchVideosByCategory_Invidious ==
    /\ c_pc = "invidious" /\ c_op = "category"
    /\ \E resp \in CategoryResponses :
         LET key == CategoryKey(c_cat)
             newVideos == FormatInvidious(resp.data)
         IN  /\ c_requests' = Append(c_requests,
                                     Request("invidious", c_i, CategoryRequest(c_cat)))
             /\ c_outcomes' = Seen(c_outcomes, resp)
             /\ IF NonEmptyArray(resp)
                THEN /\ videoCache' = AppendToCache(key, newVideos)
                     /\ cacheTimestamps' = Put(cacheTimestamps, key, now)
                     /\ c_ret' = Slice(Entry(key) \o newVideos, c_count)
                     /\ c_pc' = "done" /\ c_i' = c_i
                ELSE /\ c_i' = IF c_i + 1 < NumInstances THEN c_i + 1 ELSE 0
                     /\ c_pc' = IF c_i + 1 < NumInstances THEN "invidious" ELSE "piped"
                     /\ UNCHANGED <<videoCache, cacheTimestamps, c_ret>>
    /\ UNCHANGED <<nextPageTokens, now, currentInstanceIndex, c_op, c_cat, c_count,
                   c_reset, searchVars, resolveVars, normVars, relayVars, optVars, seqVars, overlapVars, uiVars>>

\* Lines 332-406: one pass of the loop over pipedInstances; after the last
\* one the static default records or the terminal error.
fetchVideosByCategory_Piped ==
    /\ c_pc = "piped" /\ c_op = "category"
    /\ \E resp \in PipedResponses :
         LET key == CategoryKey(c_cat)
             newVideos == FormatPiped(resp.data)
         IN  /\ c_requests' = Append(c_requests,
                                     Request("piped", c_i, PipedCategoryRequest(c_cat)))
             /\ c_outcomes' = Seen(c_outcomes, resp)
             /\ IF NonEmptyArray(resp)
                THEN /\ videoCache' = AppendToCache(key, newVideos)
                     /\ cacheTimestamps' = Put(cacheTimestamps, key, now)
                     /\ c_ret' = Slice(Entry(key) \o newVideos, c_count)
                     /\ c_pc' = "done" /\ c_i' = c_i
                ELSE IF c_i + 1 < NumPiped
                THEN /\ c_i' = c_i + 1 /\ c_pc' = "piped"
                     /\ UNCHANGED <<videoCache, cacheTimestamps, c_ret>>
                ELSE /\ CategoryFallback(key)
                     /\ c_i' = c_i
                     /\ UNCHANGED cacheTimestamps
    /\ UNCHANGED <<nextPageTokens, now, currentInstanceIndex, c_op, c_cat, c_count,
                   c_reset, searchVars, resolveVars, normVars, relayVars, optVars, seqVars, overlapVars, uiVars>>

\* Lines 410-418: fetchMoreVideos enters its loop over the instances.
fetchMoreVideos_Start(category, count) ==
    /\ Idle(c_pc) /\ SameKey(c_cat, category)
    /\ c_op' = "more" /\ c_cat' = category /\ c_count' = count /\ c_reset' = FALSE
    /\ c_requests' = <<>> /\ c_i' = 0 /\ c_ret' = <<>> /\ c_outcomes' = {}
    /\ c_pc' = "invidious"
    /\ UNCHANGED <<cacheVars, currentInstanceIndex, searchVars, resolveVars, normVars, relayVars, optVars, seqVars, overlapVars, uiVars>>

\* The end of fetchMoreVideos done as fetchVideosByCategory ends: a throw when
\* no static default record is left to append.
MoreFallback_Throws(key) ==
    LET unusedFallbacks == IF HasFallback(c_cat)
                           THEN UniqueNew(key, FALLBACK_VIDEOS[c_cat]) ELSE <<>>
    IN  /\ videoCache' = IF unusedFallbacks # <<>>
                         THEN AppendToCache(key, unusedFallbacks) ELSE videoCache
        /\ c_ret' = Slice(unusedFallbacks, c_count)
        /\ c_pc' = IF unusedFallbacks # <<>> THEN "done" ELSE "thrown"

\* Lines 496-514: the static default records not yet in the entry, or [].
MoreFallback(key) ==
    LET unusedFallbacks == IF HasFallback(c_cat)
                           THEN UniqueNew(key, FALLBACK_VIDEOS[c_cat]) ELSE <<>>
    IN  /\ videoCache' = IF unusedFallbacks # <<>>
                         THEN AppendToCache(key, unusedFallbacks) ELSE videoCache
        /\ c_ret' = Slice(unusedFallbacks, c_count)
        /\ c_pc' = "done"

\* Lines 420-514: one pass of the loop over INVIDIOUS_INSTANCES, the popular
\* endpoint; after the last one the unused static default records.
fetchMoreVideos_Invidious ==
    /\ c_pc = "invidious" /\ c_op = "more"
    /\ \E resp \in CategoryResponses :
         LET key == CategoryKey(c_cat)
             newVideos == FormatInvidious(resp.data)
             uniqueNewVideos == UniqueNew(key, newVideos)
         IN  /\ c_requests' = Append(c_requests,
                                     Request("invidious", c_i, PopularRequest))
             /\ IF NonEmptyArray(resp) /\ uniqueNewVideos # <<>>
                THEN /\ videoCache' = AppendToCache(key, uniqueNewVideos)
                     /\ c_ret' = Slice(uniqueNewVideos, c_count)
                     /\ c_pc' = "done" /\ c_i' = c_i
                ELSE IF c_i + 1 < NumInstances
                THEN /\ c_i' = c_i + 1 /\ c_pc' = "invidious"
                     /\ UNCHANGED <<videoCache, c_ret>>
                ELSE /\ c_i' = c_i
                     /\ MoreFallback(key)
    /\ UNCHANGED <<cacheTimestamps, nextPageTokens, now, currentInstanceIndex, c_op,
                   c_cat, c_count, c_reset, c_outcomes, searchVars, resolveVars, normVars, relayVars, optVars, seqVars, overlapVars, uiVars>>

\* Date.now() advances.
Tick ==
    /\ now < MaxTime
    /\ now' = now + 1
    /\ UNCHANGED <<videoCache, cacheTimestamps, nextPageTokens, currentInstanceIndex,
                   catVars, searchVars, resolveVars, normVars, relayVars, optVars, seqVars, overlapVars, uiVars>>

---------------------------------------------------------------------------
(* The retrying fetch engine: getInstance, fetchFromInvidiousAPI, and its  *)
(* callers searchVideos and fetchMoreSearchResults.                        *)

NoData == [kind |-> "none", data |-> <<>>]

SearchResponses ==
    {Failure(k) : k \in Failures} \cup {NotArray}
      \cup {Parsed(d) : d \in SeqsUpTo(SearchItems, MaxBatch)}

\* The error an attempt throws: its kind and the attempt that threw it.
AttemptError(kind, attempt) == [kind |-> kind, attempt |-> attempt]
NoError == AttemptError("none", 0)

\* The advance of the cursor without the wrap-around.
Rotate_NoWrap(index) == index + 1

\* (currentInstanceIndex + 1) % INVIDIOUS_INSTANCES.length
Rotate(index) == (index + 1) % NumInstances

\* data.filter(item => item.type === 'video').map(formatInvidiousVideo)
VideoResults(data) ==
    FormatInvidious(SeqFilter(data, {item \in Range(data) : item.type = "video"}))

\* Math.ceil(length / count) + 1
NextPage(length, count) == ((length + count - 1) \div count) + 1

\* Line 183-191: the engine is entered with its budget of attempts and calls
\* getInstance for the first attempt.
EnterEngine(retries) ==
    /\ s_retries' = retries /\ attemptsLeft' = retries
    /\ lastError' = NoError /\ instancesChecked' = 0 /\ s_probes' = <<>>
    /\ s_requests' = 0 /\ s_delays' = 0
    /\ s_engine' = "running" /\ s_data' = NoData
    /\ s_pc' = IF retries > 0 THEN "select" ELSE "thrown"

\* Lines 522-541: searchVideos returns a fresh entry or enters the engine.
searchVideos_Start(query, count) ==
    LET key == SearchKey(query)
        hit == Cached(key) /\ ~isCacheExpired(key)
    IN  /\ Idle(s_pc) /\ SameKey(s_query, query)
        /\ s_op' = "search" /\ s_query' = query /\ s_count' = count /\ s_page' = 1
        /\ IF hit
           THEN /\ s_pc' = "done" /\ s_ret' = Slice(videoCache[key], count)
                /\ s_retries' = 0 /\ attemptsLeft' = 0 /\ lastError' = NoError
                /\ instancesChecked' = 0 /\ s_probes' = <<>>
                /\ s_requests' = 0 /\ s_delays' = 0
                /\ s_engine' = "none" /\ s_data' = NoData
           ELSE /\ EnterEngine(MAX_RETRIES) /\ s_ret' = <<>>
        /\ s_instance' = 0
        /\ UNCHANGED <<cacheVars, currentInstanceIndex, catVars, resolveVars, normVars, relayVars, optVars, seqVars, overlapVars, uiVars>>

\* Lines 562-579: fetchMoreSearchResults asks for the next page of an entry
\* (without an entry it is searchVideos, the action above).
fetchMoreSearchResults_Start(query, count) ==
    LET key == SearchKey(query)
    IN  /\ Idle(s_pc) /\ SameKey(s_query, query)
        /\ Cached(key) /\ Len(videoCache[key]) < MaxCached
        /\ s_op' = "moreSearch" /\ s_query' = query /\ s_count' = count
        /\ s_page' = NextPage(Len(videoCache[key]), count)
        /\ EnterEngine(MAX_RETRIES) /\ s_ret' = <<>> /\ s_instance' = 0
        /\ UNCHANGED <<cacheVars, currentInstanceIndex, catVars, resolveVars, normVars, relayVars, optVars, seqVars, overlapVars, uiVars>>

\* Line 183: the engine itself, with any budget of attempts up to the default.
fetchFromInvidiousAPI_Start(retries) ==
    /\ Idle(s_pc) /\ s_query = "none"
    /\ s_op' = "fetch" /\ s_count' = 0 /\ s_page' = 0
    /\ EnterEngine(retries) /\ s_ret' = <<>> /\ s_instance' = 0
    /\ UNCHANGED <<s_query, cacheVars, currentInstanceIndex, catVars, resolveVars, normVars, relayVars, optVars, seqVars, overlapVars, uiVars>>

\* The instance getInstance returns when it gives up, were it the one at the
\* cursor.
FirstInstance_Cursor == currentInstanceIndex

\* Line 179: return INVIDIOUS_INSTANCES[0]
FirstInstance == 0

\* getInstance without line 173: a failed probe leaves the cursor where it is.
getInstance_Probe_NoAdvance ==
    /\ s_pc = "select"
    /\ s_probes' = Append(s_probes, currentInstanceIndex)
    /\ \E ok \in BOOLEAN :
         IF ok
         THEN /\ s_instance' = currentInstanceIndex /\ s_pc' = "request"
              /\ UNCHANGED <<currentInstanceIndex, instancesChecked>>
         ELSE /\ currentInstanceIndex' = currentInstanceIndex
              /\ instancesChecked' = instancesChecked + 1
              /\ s_pc' = IF instancesChecked + 1 < NumInstances THEN "select" ELSE "request"
              /\ s_instance' = IF instancesChecked + 1 < NumInstances THEN s_instance
                                                                      ELSE FirstInstance
    /\ UNCHANGED <<cacheVars, catVars, resolveVars, normVars, relayVars, optVars, seqVars, overlapVars, uiVars, s_op, s_query,
                   s_count, s_page, s_retries, attemptsLeft, lastError, s_requests,
                   s_delays, s_engine, s_data, s_ret>>

\* unnamed/part_000 lines 79-106 with the next endpoint returned but the
\* cursor left where it was.
getInstance_Optimistic_KeepsCursor ==
    /\ s_pc = "select"
    /\ s_probes' = Append(s_probes, currentInstanceIndex)
    /\ \E ok \in BOOLEAN :
         /\ probeOk' = ok
         /\ IF ok \/ ~enableFallback
            THEN s_instance' = currentInstanceIndex
            ELSE s_instance' = Rotate(currentInstanceIndex)
         /\ UNCHANGED currentInstanceIndex
    /\ s_pc' = "request"
    /\ UNCHANGED <<cacheVars, catVars, resolveVars, normVars, relayVars, seqVars, overlapVars, uiVars, enableFallback,
                   s_op, s_query, s_count, s_page, s_retries, attemptsLeft, lastError,
                   instancesChecked, s_requests, s_delays, s_engine, s_data, s_ret>>

\* unnamed/part_000 lines 79-106: the getInstance that probes the endpoint at
\* the cursor only; when the probe fails and fallback is enabled it advances
\* the cursor and returns the endpoint there, unprobed.
getInstance_Optimistic ==
    /\ s_pc = "select"
    /\ s_probes' = Append(s_probes, currentInstanceIndex)
    /\ \E ok \in BOOLEAN :
         /\ probeOk' = ok
         /\ IF ok \/ ~enableFallback
            THEN /\ s_instance' = currentInstanceIndex
                 /\ UNCHANGED currentInstanceIndex
            ELSE /\ currentInstanceIndex' = Rotate(currentInstanceIndex)
                 /\ s_instance' = Rotate(currentInstanceIndex)
    /\ s_pc' = "request"
    /\ UNCHANGED <<cacheVars, catVars, resolveVars, normVars, relayVars, seqVars, overlapVars, uiVars, enableFallback,
                   s_op, s_query, s_count, s_page, s_retries, attemptsLeft, lastError,
                   instancesChecked, s_requests, s_delays, s_engine, s_data, s_ret>>

\* Lines 150-180: one liveness probe of getInstance.  A probe that succeeds
\* returns the instance at the cursor; one that fails advances the cursor,
\* and after a probe per instance the first instance is returned.
getInstance_Probe ==
    /\ s_pc = "select"
    /\ s_probes' = Append(s_probes, currentInstanceIndex)
    /\ \E ok \in BOOLEAN :
         IF ok
         THEN /\ s_instance' = currentInstanceIndex /\ s_pc' = "request"
              /\ UNCHANGED <<currentInstanceIndex, instancesChecked>>
         ELSE /\ currentInstanceIndex' = Rotate(currentInstanceIndex)
              /\ instancesChecked' = instancesChecked + 1
              /\ s_pc' = IF instancesChecked + 1 < NumInstances THEN "select" ELSE "request"
              /\ s_instance' = IF instancesChecked + 1 < NumInstances THEN s_instance
                                                                      ELSE FirstInstance
    /\ UNCHANGED <<cacheVars, catVars, resolveVars, normVars, relayVars, optVars, seqVars, overlapVars, uiVars, s_op, s_query, s_count, s_page,
                   s_retries, attemptsLeft, lastError, s_requests, s_delays, s_engine,
                   s_data, s_ret>>

\* searchVideos caching a result only when it has records.
searchVideos_Finish_SkipEmpty(returned, data) ==
    LET key == SearchKey(s_query)
        videos == IF data.kind = "json" THEN VideoResults(data.data) ELSE <<>>
    IN  IF returned /\ videos # <<>>
        THEN /\ videoCache' = Put(videoCache, key, videos)
             /\ cacheTimestamps' = Put(cacheTimestamps, key, now)
             /\ s_ret' = Slice(videos, s_count)
             /\ s_pc' = "done"
        ELSE /\ s_ret' = <<>> /\ s_pc' = "done"
             /\ UNCHANGED <<videoCache, cacheTimestamps>>

\* searchVideos recording an entry without records when the engine threw.
searchVideos_Finish_CacheFailure(returned, data) ==
    LET key == SearchKey(s_query)
        videos == IF returned /\ data.kind = "json" THEN VideoResults(data.data) ELSE <<>>
    IN  /\ videoCache' = Put(videoCache, key, videos)
        /\ cacheTimestamps' = Put(cacheTimestamps, key, now)
        /\ s_ret' = Slice(videos, s_count)
        /\ s_pc' = "done"

\* Lines 542-558: searchVideos after the engine returned data or threw.
searchVideos_Finish(returned, data) ==
    LET key == SearchKey(s_query)
        videos == IF data.kind = "json" THEN VideoResults(data.data) ELSE <<>>
    IN  IF returned
        THEN /\ videoCache' = Put(videoCache, key, videos)
             /\ cacheTimestamps' = Put(cacheTimestamps, key, now)
             /\ s_ret' = Slice(videos, s_count)
             /\ s_pc' = "done"
        ELSE /\ s_ret' = <<>> /\ s_pc' = "done"
             /\ UNCHANGED <<videoCache, cacheTimestamps>>

\* Lines 581-598: fetchMoreSearchResults after the engine returned or threw.
fetchMoreSearchResults_Finish(returned, data) ==
    LET key == SearchKey(s_query)
        newVideos == VideoResults(data.data)
    IN  IF returned /\ NonEmptyArray(data)
        THEN /\ videoCache' = AppendToCache(key, newVideos)
             /\ s_ret' = Slice(newVideos, s_count)
             /\ s_pc' = "done"
             /\ UNCHANGED cacheTimestamps
        ELSE /\ s_ret' = <<>> /\ s_pc' = "done"
             /\ UNCHANGED <<videoCache, cacheTimestamps>>

\* The caller's continuation once the engine has returned or thrown.
Finish(returned, data) ==
    IF s_op = "search" THEN searchVideos_Finish(returned, data)
    ELSE IF s_op = "moreSearch" THEN fetchMoreSearchResults_Finish(returned, data)
    ELSE /\ s_pc' = IF returned THEN "done" ELSE "thrown"
         /\ s_ret' = <<>>
         /\ UNCHANGED <<videoCache, cacheTimestamps>>

\* The catch block without the advance of the cursor (ENABLE_FALLBACK off).
AttemptFailed_NoRotate(kind) ==
    /\ lastError' = AttemptError(kind, s_requests + 1)
    /\ attemptsLeft' = attemptsLeft - 1
    /\ currentInstanceIndex' = currentInstanceIndex

\* The catch block keeping the first error instead of the last.
AttemptFailed_KeepFirst(kind) ==
    /\ lastError' = IF lastError = NoError THEN AttemptError(kind, s_requests + 1)
                                          ELSE lastError
    /\ attemptsLeft' = attemptsLeft - 1
    /\ currentInstanceIndex' = IF enableFallback THEN Rotate(currentInstanceIndex)
                                                 ELSE currentInstanceIndex

\* The catch block rotating the cursor for thrown errors only, not for a
\* non-success status.
AttemptFailed_StatusNoRotate(kind) ==
    /\ lastError' = AttemptError(kind, s_requests + 1)
    /\ attemptsLeft' = attemptsLeft - 1
    /\ currentInstanceIndex' = IF enableFallback /\ kind # "status"
                                 THEN Rotate(currentInstanceIndex)
                                 ELSE currentInstanceIndex

\* Lines 210-224: the catch block of an attempt.
AttemptFailed(kind) ==
    /\ lastError' = AttemptError(kind, s_requests + 1)
    /\ attemptsLeft' = attemptsLeft - 1
    /\ currentInstanceIndex' = IF enableFallback THEN Rotate(currentInstanceIndex)
                                                 ELSE currentInstanceIndex

\* Lines 194-229: the data request of one attempt and what follows it.
fetchFromInvidiousAPI_Request ==
    /\ s_pc = "request"
    /\ \E resp \in SearchResponses :
         /\ s_requests' = s_requests + 1
         /\ IF resp.kind \in Failures
            THEN /\ AttemptFailed(resp.kind)
                 /\ s_data' = NoData
                 /\ IF attemptsLeft - 1 > 0
                    THEN /\ s_pc' = "delay"
                         /\ UNCHANGED <<s_engine, s_ret, videoCache, cacheTimestamps>>
                    ELSE /\ s_engine' = "thrown"
                         /\ Finish(FALSE, NoData)
            ELSE /\ s_data' = resp /\ s_engine' = "returned"
                 /\ Finish(TRUE, resp)
                 /\ UNCHANGED <<lastError, attemptsLeft, currentInstanceIndex>>
    /\ UNCHANGED <<nextPageTokens, now, catVars, resolveVars, normVars, relayVars, optVars, seqVars, overlapVars, uiVars, s_op, s_query, s_count,
                   s_page, s_retries, instancesChecked, s_probes, s_instance, s_delays>>

\* Lines 220-223: the fixed delay before the next attempt, which begins with
\* a call of getInstance.
fetchFromInvidiousAPI_Delay ==
    /\ s_pc = "delay"
    /\ s_delays' = s_delays + 1
    /\ instancesChecked' = 0 /\ s_probes' = <<>>
    /\ s_pc' = "select"
    /\ UNCHANGED <<cacheVars, currentInstanceIndex, catVars, resolveVars, normVars, relayVars, optVars, seqVars, overlapVars, uiVars, s_op, s_query,
                   s_count, s_page, s_retries, attemptsLeft, lastError, s_instance,
                   s_requests, s_engine, s_data, s_ret>>

---------------------------------------------------------------------------
(* Stream resolution fallback chain: getVideoDetails.                      *)

VideoIds == {"kJQP7kiw5Fk"}

\* URLs, as the pieces startsWith('http') and the "https:" prefix see.
ProtocolRelative == <<"//", "host/path">>
HttpsUrl == <<"http", "s", ":", "//", "host/path">>
HttpUrl == <<"http", ":", "//", "host/path">>
RootRelative == <<"/", "path">>
RtspUrl == <<"rtsp", ":", "//", "host/path">>
\* no url: undefined, null or ""
NoUrl == <<>>
Urls == {ProtocolRelative, HttpsUrl, HttpUrl, RootRelative, RtspUrl, NoUrl}
HlsUrls == {ProtocolRelative, HttpsUrl, NoUrl}

\* url.startsWith('http')
StartsWithHttp(url) == Len(url) >= 1 /\ url[1] = "http"

\* Lines 667-669, 677-679: if (format.url && !format.url.startsWith('http'))
\* format.url = `https:${format.url}`
RewriteUrl(url) ==
    IF url # NoUrl /\ ~StartsWithHttp(url) THEN <<"http", "s", ":">> \o url ELSE url

RewriteFormats(formats) == [j \in 1 .. Len(formats) |-> [url |-> RewriteUrl(formats[j].url)]]

Formats == {[url |-> u] : u \in Urls}
FormatLists == SeqsUpTo(Formats, MaxFormats)
FormatFields == {"formatStreams", "adaptiveFormats"}

\* What /api/v1/videos/<id> of an Invidious instance can come to: a failure,
\* the JSON null, or an object with each format collection present or not.
DetailObject(fields, formatStreams, adaptiveFormats, hlsUrl) ==
    [kind |-> "json", fields |-> fields, formatStreams |-> formatStreams,
     adaptiveFormats |-> adaptiveFormats, hlsUrl |-> hlsUrl]
DetailResponses ==
    {[DetailObject({}, <<>>, <<>>, NoUrl) EXCEPT !.kind = k] : k \in Failures \cup {"null"}}
      \cup {DetailObject(f, IF "formatStreams" \in f THEN fs ELSE <<>>,
                          IF "adaptiveFormats" \in f THEN af ELSE <<>>, h) :
               f \in SUBSET FormatFields, fs \in FormatLists, af \in FormatLists,
               h \in HlsUrls}

\* What /streams/<id> of a Piped instance can come to: a failure, the JSON
\* null, an object without videoStreams, or an object with them.
StreamFormats == {"video/mp4", "MPEG_4", Undef}
Streams == {[url |-> u, format |-> f] : u \in Urls, f \in StreamFormats}
StreamObject(hasStreams, videoStreams, hls) ==
    [kind |-> "json", hasStreams |-> hasStreams, videoStreams |-> videoStreams, hls |-> hls]
StreamResponses ==
    {[StreamObject(FALSE, <<>>, NoUrl) EXCEPT !.kind = k] : k \in Failures \cup {"null"}}
      \cup {StreamObject(FALSE, <<>>, h) : h \in HlsUrls}
      \cup {StreamObject(TRUE, vs, h) : vs \in SeqsUpTo(Streams, MaxFormats), h \in HlsUrls}

NoResponse == [kind |-> "none"]

Manifest(source, formatStreams, adaptiveFormats, hlsUrl, directUrl) ==
    [source |-> source, formatStreams |-> formatStreams,
     adaptiveFormats |-> adaptiveFormats, hlsUrl |-> hlsUrl, directUrl |-> directUrl]
NoManifest == Manifest("none", <<>>, <<>>, NoUrl, NoUrl)

\* The acceptance test looking at formatStreams only.
AcceptInvidious_StreamsOnly(resp) ==
    /\ resp.kind = "json"
    /\ resp.fields # {}
    /\ Len(resp.formatStreams) > 0

\* Lines 639-661: the response is ok, parses, is an object with a format
\* collection, and one of its collections is not empty.
AcceptInvidious(resp) ==
    /\ resp.kind = "json"
    /\ resp.fields # {}
    /\ (Len(resp.formatStreams) > 0 \/ Len(resp.adaptiveFormats) > 0)

\* Lines 663-685: the data received, its format urls rewritten.
ManifestOfInvidious(resp) ==
    Manifest("invidious", RewriteFormats(resp.formatStreams),
             RewriteFormats(resp.adaptiveFormats), resp.hlsUrl, NoUrl)

\* Lines 711-735: the response is ok and parses, and the translation does
\* not throw (pipedData.videoStreams is there).
AcceptPiped(resp) == resp.kind = "json" /\ resp.hasStreams

\* stream.format?.includes('video/mp4')
IsMp4(stream) == stream.format = "video/mp4"

\* Lines 716-735: the Piped response in the shape of an Invidious one.
ManifestOfPiped(resp) ==
    LET mp4 == SeqFilter(resp.videoStreams, {st \in Range(resp.videoStreams) : IsMp4(st)})
    IN  Manifest("piped", [j \in 1 .. Len(mp4) |-> [url |-> mp4[j].url]], <<>>, resp.hls,
                 IF resp.videoStreams = <<>> THEN NoUrl ELSE resp.videoStreams[1].url)

\* The loop over INVIDIOUS_INSTANCES leaving out the last instance.
InvidiousExhausted_Early(i) == i + 2 >= NumInstances

\* for (const instance of INVIDIOUS_INSTANCES): the list is exhausted
InvidiousExhausted(i) == i + 1 >= NumInstances
\* for (const pipedInstance of pipedInstances): the list is exhausted
PipedExhausted(i) == i + 1 >= NumPiped

DetailRequest(family, instance, videoId) ==
    [family |-> family, instance |-> instance, videoId |-> videoId]

\* The call beginning its loop at the provider cursor.
getVideoDetails_Start_AtCursor(videoId) ==
    /\ r_pc \in {"idle", "returned", "thrown"}
    /\ r_videoId' = videoId
    /\ r_pc' = "invidious" /\ r_i' = currentInstanceIndex /\ r_requests' = <<>>
    /\ r_response' = NoResponse /\ r_ret' = NoManifest /\ r_throws' = 0
    /\ UNCHANGED <<cacheVars, currentInstanceIndex, catVars, searchVars, normVars, relayVars, optVars, seqVars, overlapVars, uiVars>>

\* Line 624: the call; the loop over INVIDIOUS_INSTANCES begins.
getVideoDetails_Start(videoId) ==
    /\ r_pc \in {"idle", "returned", "thrown"}
    /\ r_videoId' = videoId
    /\ r_pc' = "invidious" /\ r_i' = 0 /\ r_requests' = <<>>
    /\ r_response' = NoResponse /\ r_ret' = NoManifest /\ r_throws' = 0
    /\ UNCHANGED <<cacheVars, currentInstanceIndex, catVars, searchVars, normVars, relayVars, optVars, seqVars, overlapVars, uiVars>>

\* The loop over INVIDIOUS_INSTANCES asking an instance a second time after
\* its first failure.
getVideoDetails_Invidious_Retry ==
    /\ r_pc = "invidious"
    /\ \E resp \in DetailResponses :
         /\ r_requests' = Append(r_requests, DetailRequest("invidious", r_i, r_videoId))
         /\ r_response' = resp
         /\ IF AcceptInvidious(resp)
            THEN /\ r_ret' = ManifestOfInvidious(resp)
                 /\ r_pc' = "returned" /\ r_i' = r_i
            ELSE IF \A j \in 1 .. Len(r_requests) : r_requests[j].instance # r_i
            THEN UNCHANGED <<r_pc, r_i, r_ret>>
            ELSE /\ r_pc' = IF InvidiousExhausted(r_i) THEN "piped" ELSE "invidious"
                 /\ r_i' = IF InvidiousExhausted(r_i) THEN 0 ELSE r_i + 1
                 /\ UNCHANGED r_ret
    /\ UNCHANGED <<cacheVars, currentInstanceIndex, catVars, searchVars, normVars, relayVars, optVars, seqVars, overlapVars, uiVars, r_videoId, r_throws>>

\* Lines 626-690: one pass of the loop over INVIDIOUS_INSTANCES.
getVideoDetails_Invidious ==
    /\ r_pc = "invidious"
    /\ \E resp \in DetailResponses :
         /\ r_requests' = Append(r_requests, DetailRequest("invidious", r_i, r_videoId))
         /\ r_response' = resp
         /\ IF AcceptInvidious(resp)
            THEN /\ r_ret' = ManifestOfInvidious(resp)
                 /\ r_pc' = "returned" /\ r_i' = r_i
            ELSE /\ r_pc' = IF InvidiousExhausted(r_i) THEN "piped" ELSE "invidious"
                 /\ r_i' = IF InvidiousExhausted(r_i) THEN 0 ELSE r_i + 1
                 /\ UNCHANGED r_ret
    /\ UNCHANGED <<cacheVars, currentInstanceIndex, catVars, searchVars, normVars, relayVars, optVars, seqVars, overlapVars, uiVars, r_videoId, r_throws>>

\* Lines 692-748: one pass of the loop over pipedInstances; after the last
\* one the terminal error.
getVideoDetails_Piped ==
    /\ r_pc = "piped"
    /\ \E resp \in StreamResponses :
         /\ r_requests' = Append(r_requests, DetailRequest("piped", r_i, r_videoId))
         /\ r_response' = resp
         /\ IF AcceptPiped(resp)
            THEN /\ r_ret' = ManifestOfPiped(resp)
                 /\ r_pc' = "returned" /\ r_i' = r_i
                 /\ UNCHANGED r_throws
            ELSE IF PipedExhausted(r_i)
            THEN /\ r_pc' = "thrown" /\ r_throws' = r_throws + 1
                 /\ UNCHANGED <<r_i, r_ret>>
            ELSE /\ r_pc' = "piped" /\ r_i' = r_i + 1
                 /\ UNCHANGED <<r_ret, r_throws>>
    /\ UNCHANGED <<cacheVars, currentInstanceIndex, catVars, searchVars, normVars, relayVars, optVars, seqVars, overlapVars, uiVars, r_videoId>>

---------------------------------------------------------------------------
(* The cross-origin relay: GET and POST of app/api/proxy/route.ts.         *)

\* The redirects fetch follows for one call before it rejects (the model's
\* bound; the runtime's is 20).
MaxRedirects == 1

\* Hostnames a target url may name; those of ALLOWED_DOMAINS (lines 4-25)
\* among them.
ALLOWED_DOMAINS == {"yewtu.be", "pipedapi.kavin.rocks"}
Hosts == ALLOWED_DOMAINS \cup {"evil.example", "localhost"}

\* The url parameter: absent, a string new URL() rejects, or a url with the
\* host as written (userinfo is what precedes an @ in the authority) and
\* whether the string contains '/videos/' or '/streams/'.
RelayUrl(kind, userinfo, host, streams) ==
    [kind |-> kind, userinfo |-> userinfo, host |-> host, streams |-> streams]
NoRelayUrl == RelayUrl("absent", "", "", FALSE)
MalformedUrl == RelayUrl("malformed", "", "", FALSE)
RelayUrls ==
    {NoRelayUrl, MalformedUrl}
      \cup {RelayUrl("url", u, h, st) :
               u \in {"", "yewtu.be"}, h \in Hosts \cup {"YEWTU.BE"}, st \in BOOLEAN}

\* new URL(url).hostname (lines 69, 204): the host of the authority, without
\* the userinfo, in lower case.
Hostname(url) == IF url.host = "YEWTU.BE" THEN "yewtu.be" ELSE url.host

\* What the relay answers: a status and the kind of body - "error" for an
\* { error } object, "upstream" for the upstream body forwarded, "fallback"
\* for FALLBACK_VIDEOS.
RelayResponse(status, body) == [status |-> status, body |-> body]
NoRelayResponse == RelayResponse(0, "none")

\* What one upstream request can come to: a body that parses, one that does
\* not, a non-ok status, the abort by the timeout, a transport error, or a
\* redirect to another host, which fetch follows (no redirect option is
\* passed at lines 88-94, 234-243).
UpstreamOutcomes ==
    {[kind |-> k, status |-> 200, to |-> ""] : k \in {"json", "badjson"}}
      \cup {[kind |-> "status", status |-> st, to |-> ""] : st \in {404, 500}}
      \cup {[kind |-> k, status |-> 0, to |-> ""] : k \in {"timeout", "network"}}
      \cup {[kind |-> "redirect", status |-> 302, to |-> h] : h \in Hosts}

\* Lines 52-82, 187-228: the relay receives a request and answers it at once
\* or goes on to the upstream request.
Relay_Request(method, url, allowFallback, bodyParses) ==
    /\ p_pc \in {"idle", "done"}
    /\ p_method' = method /\ p_url' = url /\ p_allowFallback' = allowFallback
    /\ p_requests' = <<>> /\ p_outcome' = "none"
    /\ IF url.kind = "absent"
       THEN /\ p_response' = RelayResponse(400, "error")
            /\ p_pc' = "done" /\ p_target' = ""
       ELSE IF url.kind = "malformed"
       THEN /\ p_response' = RelayResponse(500, "error")
            /\ p_pc' = "done" /\ p_target' = ""
       ELSE IF Hostname(url) \notin ALLOWED_DOMAINS
       THEN /\ p_response' = RelayResponse(403, "error")
            /\ p_pc' = "done" /\ p_target' = ""
       ELSE IF method = "POST" /\ ~bodyParses
       THEN /\ p_response' = RelayResponse(400, "error")
            /\ p_pc' = "done" /\ p_target' = ""
       ELSE /\ p_response' = NoRelayResponse
            /\ p_pc' = "fetch" /\ p_target' = Hostname(url)
    /\ UNCHANGED <<cacheVars, currentInstanceIndex, catVars, searchVars, resolveVars,
                   normVars, optVars, seqVars, overlapVars, uiVars>>

\* The placeholder payload whenever allowFallback holds, whatever the url.
RelayFailure_AnyUrl(status) ==
    IF p_allowFallback THEN RelayResponse(200, "fallback")
    ELSE RelayResponse(status, "error")

\* isStreamsRequest && allowFallback: the placeholder payload, else the error
RelayFailure(status) ==
    IF p_url.streams /\ p_allowFallback THEN RelayResponse(200, "fallback")
    ELSE RelayResponse(status, "error")

\* Lines 84-176, 230-325: one request of the upstream fetch - to the target,
\* or to the host the last answer redirected to - and the relay's answer.
Relay_Fetch ==
    /\ p_pc = "fetch"
    /\ p_requests' = Append(p_requests, p_target)
    /\ \E outcome \in UpstreamOutcomes :
         /\ p_outcome' = outcome.kind
         /\ IF outcome.kind = "redirect" /\ Len(p_requests) < MaxRedirects
            THEN /\ p_target' = outcome.to /\ p_pc' = "fetch"
                 /\ UNCHANGED p_response
            ELSE /\ p_pc' = "done" /\ UNCHANGED p_target
                 /\ p_response' =
                      IF outcome.kind = "json" THEN RelayResponse(outcome.status, "upstream")
                      ELSE IF outcome.kind = "badjson" THEN RelayResponse(500, "error")
                      ELSE IF outcome.kind = "status" THEN RelayFailure(outcome.status)
                      ELSE IF outcome.kind = "timeout" THEN RelayFailure(504)
                      ELSE RelayFailure(500)
    /\ UNCHANGED <<cacheVars, currentInstanceIndex, catVars, searchVars, resolveVars,
                   normVars, optVars, seqVars, overlapVars, uiVars, p_method, p_url, p_allowFallback>>

---------------------------------------------------------------------------
(* Initial state: the module has just been loaded.                         *)

CacheInit ==
    /\ videoCache = <<>> /\ cacheTimestamps = <<>> /\ nextPageTokens = <<>>
    /\ currentInstanceIndex = 0
    /\ now = 1

CatInit ==
    /\ c_pc = "idle" /\ c_op = "none" /\ c_cat = "none" /\ c_count = 0
    /\ c_reset = FALSE /\ c_i = 0 /\ c_requests = <<>> /\ c_outcomes = {}
    /\ c_ret = <<>>

SearchInit ==
    /\ s_pc = "idle" /\ s_op = "none" /\ s_query = "none" /\ s_count = 0
    /\ s_page = 0 /\ s_retries = 0 /\ attemptsLeft = 0 /\ lastError = NoError
    /\ instancesChecked = 0 /\ s_probes = <<>> /\ s_instance = 0
    /\ s_requests = 0 /\ s_delays = 0
    /\ s_engine = "none" /\ s_data = NoData /\ s_ret = <<>>

ResolveInit ==
    /\ r_pc = "idle" /\ r_videoId = "none" /\ r_i = 0 /\ r_requests = <<>>
    /\ r_response = NoResponse /\ r_ret = NoManifest /\ r_throws = 0

NormInit ==
    /\ n_pc = "idle" /\ n_family = "none" /\ n_item = NoItem /\ n_record = NoRecord

RelayInit ==
    /\ p_pc = "idle" /\ p_method = "none" /\ p_url = NoRelayUrl
    /\ p_allowFallback = TRUE /\ p_target = "" /\ p_requests = <<>>
    /\ p_outcome = "none"
    /\ p_response = NoRelayResponse

DebounceInit ==
    /\ d_timer = 0 /\ d_since = 0 /\ d_burst = TRUE /\ d_calls = <<>>
    /\ d_invoked = <<>> /\ d_inflight = {} /\ d_delivered = <<>>

CursorInit ==
    /\ y_pc = "idle" /\ y_cat = "none" /\ y_count = 0 /\ y_currentCount = 0
    /\ y_requests = <<>> /\ y_response = [kind |-> "none"] /\ y_ret = <<>>

\* video-player.tsx lines 18-28: the state of a player before its first
\* effect; directUrls and duration name the video whose manifest set them.
InitialPlayerState ==
    [directUrls |-> "none", duration |-> "none", playerReady |-> FALSE,
     playerError |-> FALSE, isLoading |-> TRUE]

PlayerInit ==
    /\ v_mounted = FALSE /\ v_videoId = "none" /\ v_errorRetryCount = 0
    /\ v_runs = <<>> /\ v_state = InitialPlayerState /\ v_settled = 0

\* video-feed.tsx lines 44-49: no list, category "All", no search
NoVideos == [kind |-> "none", target |-> "", request |-> 0, records |-> FALSE]

FeedInit ==
    /\ f_activeCategory = "All" /\ f_searchQuery = "" /\ f_timer = "none"
    /\ f_fetches = <<>> /\ f_videos = NoVideos

UiInit == DebounceInit /\ CursorInit /\ PlayerInit /\ FeedInit

\* video-feed.tsx lines 156 and 159: who calls fetchVideosByCategory
Callers == {"mount", "preload"}

OverlapInit ==
    /\ o_pc = [p \in Callers |-> "idle"] /\ o_i = [p \in Callers |-> 0]
    /\ o_batch = [p \in Callers |-> <<>>] /\ o_ret = [p \in Callers |-> <<>>]

SeqInit ==
    /\ q_pc = "idle" /\ q_op = "none" /\ q_family = "invidious" /\ q_i = 0
    /\ q_outstanding = {} /\ q_issued = <<>> /\ q_settled = <<>> /\ q_how = "none"

\* config.ts line 21
OptInit == enableFallback = ENABLE_FALLBACK /\ probeOk = FALSE

Init ==
    /\ CacheInit /\ CatInit /\ SearchInit /\ ResolveInit /\ NormInit /\ RelayInit
    /\ OptInit /\ SeqInit /\ OverlapInit /\ UiInit

---------------------------------------------------------------------------
(* Spec: the category cache and paginator.                                 *)

Next ==
    \/ \E category \in Categories, count \in 1 .. MaxCount, resetCache \in BOOLEAN :
          fetchVideosByCategory_Start(category, count, resetCache)
    \/ fetchVideosByCategory_Invidious
    \/ fetchVideosByCategory_Piped
    \/ \E category \in Categories, count \in 1 .. MaxCount :
          fetchMoreVideos_Start(category, count)
    \/ fetchMoreVideos_Invidious
    \/ Tick

Spec == Init /\ [][Next]_vars

---------------------------------------------------------------------------
(* SpecFetch: the fetch engine alone, entered with any budget of attempts. *)

NextFetch ==
    \/ \E retries \in 1 .. MAX_RETRIES : fetchFromInvidiousAPI_Start(retries)
    \/ getInstance_Probe
    \/ fetchFromInvidiousAPI_Request
    \/ fetchFromInvidiousAPI_Delay

SpecFetch == Init /\ [][NextFetch]_vars

\* Every step of an invocation is taken: an awaited request completes or is aborted by
\* its timeout (lines 162, 198), and the delay timer fires (line 222).
FairFetch ==
    SpecFetch /\ WF_vars(getInstance_Probe) /\ WF_vars(fetchFromInvidiousAPI_Request)
              /\ WF_vars(fetchFromInvidiousAPI_Delay)

---------------------------------------------------------------------------
(* SpecConcurrent: the fetch engine while other invocations of it run.     *)

\* Lines 173, 216: what a concurrent invocation of getInstance or
\* fetchFromInvidiousAPI does to the state this one shares with it; each
\* advance of the cursor runs between two awaits, so it is one step.
Concurrent_Rotate ==
    /\ s_engine = "running"
    /\ currentInstanceIndex' = Rotate(currentInstanceIndex)
    /\ UNCHANGED <<cacheVars, catVars, searchVars, resolveVars, normVars, relayVars, optVars, seqVars, overlapVars, uiVars>>

NextConcurrent ==
    \/ NextFetch
    \/ Concurrent_Rotate

SpecConcurrent == Init /\ [][NextConcurrent]_vars

---------------------------------------------------------------------------
(* SpecSearch: the search cache over the fetch engine.                     *)

NextSearch ==
    \/ \E query \in Queries, count \in 1 .. MaxCount : searchVideos_Start(query, count)
    \/ \E query \in Queries, count \in 1 .. MaxCount :
          fetchMoreSearchResults_Start(query, count)
    \/ getInstance_Probe
    \/ fetchFromInvidiousAPI_Request
    \/ fetchFromInvidiousAPI_Delay
    \/ Tick

SpecSearch == Init /\ [][NextSearch]_vars

---------------------------------------------------------------------------
(* SpecMore: the two paginators, fetchMoreVideos and                       *)
(* fetchMoreSearchResults.                                                 *)

\* A behaviour follows the calls on one cache key, a category's or a query's
\* (see SameKey): the category handlers do not read the cursor of the engine,
\* and the search handlers touch no category entry.
NextMore ==
    \/ \E category \in Categories, count \in 1 .. MaxCount :
          s_query = "none" /\ fetchMoreVideos_Start(category, count)
    \/ fetchMoreVideos_Invidious
    \/ \E query \in Queries, count \in 1 .. MaxCount :
          c_cat = "none" /\ searchVideos_Start(query, count)
    \/ \E query \in Queries, count \in 1 .. MaxCount :
          c_cat = "none" /\ fetchMoreSearchResults_Start(query, count)
    \/ getInstance_Probe
    \/ fetchFromInvidiousAPI_Request
    \/ fetchFromInvidiousAPI_Delay

SpecMore == Init /\ [][NextMore]_vars

---------------------------------------------------------------------------
(* SpecAppend: every operation that writes records to a cache entry, on    *)
(* one key per behaviour and with the clock standing still.                *)

NextAppend ==
    \/ \E category \in Categories, count \in 1 .. MaxCount, resetCache \in BOOLEAN :
          s_query = "none" /\ fetchVideosByCategory_Start(category, count, resetCache)
    \/ fetchVideosByCategory_Invidious
    \/ fetchVideosByCategory_Piped
    \/ NextMore

SpecAppend == Init /\ [][NextAppend]_vars

---------------------------------------------------------------------------
(* SpecResolve: the stream resolution chain.                               *)

NextResolve ==
    \/ \E videoId \in VideoIds : getVideoDetails_Start(videoId)
    \/ getVideoDetails_Invidious
    \/ getVideoDetails_Piped

SpecResolve == Init /\ [][NextResolve]_vars

\* Lines 632-635 and 707-710: every request carries AbortSignal.timeout(5000),
\* so a pass of either loop that has begun completes.
FairResolve ==
    /\ SpecResolve
    /\ WF_vars(getVideoDetails_Invidious)
    /\ WF_vars(getVideoDetails_Piped)

---------------------------------------------------------------------------
(* SpecResolveAmid: the stream resolution chain called while the metadata  *)
(* side is in a state its own calls have left: the provider cursor at any  *)
(* endpoint, the record cache empty or loaded.                             *)

\* The cache after fetchVideosByCategory("Music") found no provider and
\* stored the static default records (lines 254-257, 389-400).
CacheLoaded ==
    /\ videoCache = Put(<<>>, CategoryKey("Music"), FALLBACK_VIDEOS["Music"])
    /\ nextPageTokens = Put(<<>>, CategoryKey("Music"), "null")
    /\ cacheTimestamps = <<>>
    /\ now = 1

CacheEmpty ==
    /\ videoCache = <<>> /\ cacheTimestamps = <<>> /\ nextPageTokens = <<>>
    /\ now = 1

InitResolveAmid ==
    /\ CacheLoaded \/ CacheEmpty
    /\ currentInstanceIndex \in INVIDIOUS_INSTANCES
    /\ CatInit /\ SearchInit /\ ResolveInit /\ NormInit /\ RelayInit /\ OptInit
    /\ SeqInit /\ OverlapInit /\ UiInit

SpecResolveAmid == InitResolveAmid /\ [][NextResolve]_vars

---------------------------------------------------------------------------
(* SpecNormalize: the canonical record normalizers, each applied to a raw  *)
(* item of its provider family.                                            *)

RawItems(family) ==
    IF family = "invidious" THEN RawInvidiousItems
    ELSE IF family = "piped" THEN RawPipedItems
    ELSE RawYouTubeItems

InitNormalize ==
    /\ CacheInit /\ CatInit /\ SearchInit /\ ResolveInit /\ RelayInit /\ OptInit
    /\ SeqInit /\ OverlapInit /\ UiInit
    /\ n_pc = "raw" /\ n_record = NoRecord
    /\ n_family \in {"invidious", "piped", "youtube"}
    /\ n_item \in RawItems(n_family)

NextNormalize ==
    \/ formatInvidiousVideo_Apply
    \/ PipedMapping_Apply
    \/ formatVideoItem_Apply

SpecNormalize == InitNormalize /\ [][NextNormalize]_vars

---------------------------------------------------------------------------
(* SpecViewCount: formatViewCount, applied to a number (invidious-api.ts)  *)
(* or to a string (youtube-api.ts).                                        *)

InitViewCount ==
    /\ CacheInit /\ CatInit /\ SearchInit /\ ResolveInit /\ RelayInit /\ OptInit
    /\ SeqInit /\ OverlapInit /\ UiInit
    /\ n_pc = "raw" /\ n_record = NoRecord
    /\ n_family \in {"count", "countString"}
    /\ n_item \in IF n_family = "count"
                  THEN {[viewCount |-> n] : n \in Counts \cup {NaN}}
                  ELSE {[viewCount |-> str] : str \in CountStrings}

NextViewCount ==
    \/ formatViewCount_Apply
    \/ formatViewCount_Parse

SpecViewCount == InitViewCount /\ [][NextViewCount]_vars

---------------------------------------------------------------------------
(* SpecRelay: the relay handling one request after another.                *)

NextRelay ==
    \/ \E method \in {"GET", "POST"}, url \in RelayUrls, allowFallback \in BOOLEAN,
          bodyParses \in BOOLEAN :
          Relay_Request(method, url, allowFallback, bodyParses)
    \/ Relay_Fetch

SpecRelay == Init /\ [][NextRelay]_vars

---------------------------------------------------------------------------
(* SpecOverlap: the feed's initial load.  The effect of video-feed.tsx     *)
(* lines 155-160 calls handleCategoryChange("Trending") and then           *)
(* preloadCommonCategories(); each runs to the first await of its          *)
(* fetchVideosByCategory("Trending", _, true), so both invocations are     *)
(* under way on the key category_Trending before either has an answer.     *)

\* video-feed.tsx line 40
VIDEOS_PER_PAGE == 12
\* video-feed.tsx line 70 and invidious-api.ts line 234: the counts asked for
CallerCount == [mount |-> VIDEOS_PER_PAGE, preload |-> 5]
TrendingKey == CategoryKey("Trending")

\* video-feed.tsx lines 155-160 with invidious-api.ts lines 247-261, twice:
\* each invocation clears the entry and the page token and, the emptied entry
\* being shorter than its count, enters its loop.
VideoFeed_InitialLoad ==
    /\ \A p \in Callers : Idle(o_pc[p])
    /\ videoCache' = Put(videoCache, TrendingKey, <<>>)
    /\ nextPageTokens' = Put(nextPageTokens, TrendingKey, "null")
    /\ o_pc' = [p \in Callers |-> IF 0 >= CallerCount[p] THEN "done" ELSE "invidious"]
    /\ o_i' = [p \in Callers |-> 0]
    /\ o_batch' = [p \in Callers |-> <<>>]
    /\ o_ret' = [p \in Callers |-> <<>>]
    /\ UNCHANGED <<cacheTimestamps, now, currentInstanceIndex, catVars, searchVars,
                   resolveVars, normVars, relayVars, optVars, seqVars, uiVars>>

\* Lines 260-330: one pass of the Invidious loop of the invocation of p.
Overlap_Invidious(p) ==
    /\ o_pc[p] = "invidious"
    /\ \E resp \in CategoryResponses :
         LET newVideos == FormatInvidious(resp.data)
         IN  IF NonEmptyArray(resp)
             THEN /\ videoCache' = AppendToCache(TrendingKey, newVideos)
                  /\ cacheTimestamps' = Put(cacheTimestamps, TrendingKey, now)
                  /\ o_batch' = [o_batch EXCEPT ![p] = newVideos]
                  /\ o_ret' = [o_ret EXCEPT ![p] = Slice(Entry(TrendingKey) \o newVideos,
                                                        CallerCount[p])]
                  /\ o_pc' = [o_pc EXCEPT ![p] = "done"]
                  /\ UNCHANGED o_i
             ELSE /\ o_i' = [o_i EXCEPT ![p] = IF o_i[p] + 1 < NumInstances
                                               THEN o_i[p] + 1 ELSE 0]
                  /\ o_pc' = [o_pc EXCEPT ![p] = IF o_i[p] + 1 < NumInstances
                                                 THEN "invidious" ELSE "piped"]
                  /\ UNCHANGED <<videoCache, cacheTimestamps, o_batch, o_ret>>
    /\ UNCHANGED <<nextPageTokens, now, currentInstanceIndex, catVars, searchVars,
                   resolveVars, normVars, relayVars, optVars, seqVars, uiVars>>

\* Lines 332-402: one pass of the Piped loop of the invocation of p; after
\* the last one the static default records of Trending.
Overlap_Piped(p) ==
    /\ o_pc[p] = "piped"
    /\ \E resp \in PipedResponses :
         LET newVideos == FormatPiped(resp.data)
         IN  IF NonEmptyArray(resp)
             THEN /\ videoCache' = AppendToCache(TrendingKey, newVideos)
                  /\ cacheTimestamps' = Put(cacheTimestamps, TrendingKey, now)
                  /\ o_batch' = [o_batch EXCEPT ![p] = newVideos]
                  /\ o_ret' = [o_ret EXCEPT ![p] = Slice(Entry(TrendingKey) \o newVideos,
                                                        CallerCount[p])]
                  /\ o_pc' = [o_pc EXCEPT ![p] = "done"]
                  /\ UNCHANGED o_i
             ELSE IF o_i[p] + 1 < NumPiped
             THEN /\ o_i' = [o_i EXCEPT ![p] = o_i[p] + 1]
                  /\ UNCHANGED <<videoCache, cacheTimestamps, o_batch, o_ret, o_pc>>
             ELSE /\ videoCache' = AppendToCache(TrendingKey, FALLBACK_VIDEOS["Trending"])
                  /\ o_batch' = [o_batch EXCEPT ![p] = FALLBACK_VIDEOS["Trending"]]
                  /\ o_ret' = [o_ret EXCEPT ![p] =
                                 Slice(Entry(TrendingKey) \o FALLBACK_VIDEOS["Trending"],
                                       CallerCount[p])]
                  /\ o_pc' = [o_pc EXCEPT ![p] = "done"]
                  /\ UNCHANGED <<cacheTimestamps, o_i>>
    /\ UNCHANGED <<nextPageTokens, now, currentInstanceIndex, catVars, searchVars,
                   resolveVars, normVars, relayVars, optVars, seqVars, uiVars>>

NextOverlap ==
    \/ VideoFeed_InitialLoad
    \/ \E p \in Callers : Overlap_Invidious(p)
    \/ \E p \in Callers : Overlap_Piped(p)

SpecOverlap == Init /\ [][NextOverlap]_vars

---------------------------------------------------------------------------
(* SpecDebounce: debouncedSearchVideos, its timer and the searches it      *)
(* starts.  Time is counted in tenths of a second since the last call.     *)

\* Line 620: the 300 ms of setTimeout, in tenths of a second
DEBOUNCE_DELAY == 3
\* Calls of debouncedSearchVideos in one behaviour.
MaxCalls == 3
DebounceQueries == {"foo", "bar"}
\* video-feed.tsx line 116 passes VIDEOS_PER_PAGE; line 605 defaults to 15
DebounceCounts == {VIDEOS_PER_PAGE, 15}

\* What callback receives: the records searchVideos found for the query, or
\* [] when it found none or failed (lines 555-558, 616-618).
ResultsFor(query) == <<query>>

\* Lines 603-620: the pending timer is cleared and a new one is set.
debouncedSearchVideos(query, count) ==
    /\ Len(d_calls) < MaxCalls
    /\ d_calls' = Append(d_calls, [query |-> query, count |-> count])
    /\ d_timer' = Len(d_calls) + 1
    /\ d_burst' = (d_calls = <<>> \/ (d_burst /\ d_since < DEBOUNCE_DELAY))
    /\ d_since' = 0
    /\ UNCHANGED <<cacheVars, currentInstanceIndex, catVars, searchVars, resolveVars,
                   normVars, relayVars, optVars, seqVars, overlapVars, cursorVars, viewVars,
                   d_invoked, d_inflight, d_delivered>>

\* A tenth of a second passes.
Debounce_Tick ==
    /\ d_since < DEBOUNCE_DELAY
    /\ d_since' = d_since + 1
    /\ UNCHANGED <<cacheVars, currentInstanceIndex, catVars, searchVars, resolveVars,
                   normVars, relayVars, optVars, seqVars, overlapVars, cursorVars, viewVars,
                   d_timer, d_burst, d_calls, d_invoked, d_inflight, d_delivered>>

\* A timer set with no delay.
Debounce_Fire_NoDelay ==
    /\ d_timer # 0
    /\ d_invoked' = Append(d_invoked, d_timer)
    /\ d_inflight' = d_inflight \cup {d_timer}
    /\ d_timer' = 0
    /\ UNCHANGED <<cacheVars, currentInstanceIndex, catVars, searchVars, resolveVars,
                   normVars, relayVars, optVars, seqVars, overlapVars, cursorVars, viewVars,
                   d_since, d_burst, d_calls, d_delivered>>

\* Lines 612-614: the timer fires, no earlier than the delay after the call
\* that set it, and searchVideos(query, count) is called.
Debounce_Fire ==
    /\ d_timer # 0 /\ d_since >= DEBOUNCE_DELAY
    /\ d_invoked' = Append(d_invoked, d_timer)
    /\ d_inflight' = d_inflight \cup {d_timer}
    /\ d_timer' = 0
    /\ UNCHANGED <<cacheVars, currentInstanceIndex, catVars, searchVars, resolveVars,
                   normVars, relayVars, optVars, seqVars, overlapVars, cursorVars, viewVars,
                   d_since, d_burst, d_calls, d_delivered>>

\* Lines 614-618: `await searchVideos` of the call resumes, whenever its
\* requests are over, and the callback of that call receives the outcome.
Debounce_Complete(call) ==
    /\ call \in d_inflight
    /\ d_inflight' = d_inflight \ {call}
    /\ \E found \in BOOLEAN :
         d_delivered' = Append(d_delivered,
                               [call |-> call,
                                results |-> IF found THEN ResultsFor(d_calls[call].query)
                                            ELSE <<>>])
    /\ UNCHANGED <<cacheVars, currentInstanceIndex, catVars, searchVars, resolveVars,
                   normVars, relayVars, optVars, seqVars, overlapVars, cursorVars, viewVars,
                   d_timer, d_since, d_burst, d_calls, d_invoked>>

NextDebounce ==
    \/ \E query \in DebounceQueries, count \in DebounceCounts :
          debouncedSearchVideos(query, count)
    \/ Debounce_Tick
    \/ Debounce_Fire
    \/ \E call \in 1 .. MaxCalls : Debounce_Complete(call)

SpecDebounce == Init /\ [][NextDebounce]_vars

---------------------------------------------------------------------------
(* SpecCursor: the cursor-based paginator, fetchMoreVideos of              *)
(* youtube-api.ts, over the cache of that module.                          *)

\* youtube-api.ts line 158: retries = 2
YOUTUBE_RETRIES == 2
\* youtube-api.ts lines 81-90, and a category the table does not hold
YOUTUBE_CATEGORIES == [Trending |-> "null", Music |-> "10"]
YouTubeCategories == {"Trending", "Music", "Podcasts"}
PageTokens == {"CAUQAA", "CAoQAA"}

\* Items of a videos response: a video, and one whose title holds one of the
\* adKeywords of line 212.
YouTubeItems ==
    { [id |-> [kind |-> "string", value |-> "kJQP7kiw5Fk"], title |-> "Despacito",
       channelTitle |-> "Luis Fonsi", viewCount |-> 8100000, publishedAt |-> NoDate],
      [id |-> [kind |-> "string", value |-> "adA"], title |-> "Subscribe now",
       channelTitle |-> Undef, viewCount |-> NoCount, publishedAt |-> NoDate] }

\* Lines 210-228: the records whose title holds no ad keyword
filterAdsAndPoorContent(videos) ==
    SeqFilter(videos, {v \in Range(videos) : v.title # "Subscribe now"})

\* What fetchFromYouTubeAPI comes to: it throws, or returns an object
\* without items, or one with items and with or without nextPageToken.
YouTubeResponses ==
    {[kind |-> k, items |-> <<>>, nextPageToken |-> Undef] : k \in {"failed", "noitems"}}
      \cup {[kind |-> "json", items |-> d, nextPageToken |-> t] :
               d \in SeqsUpTo(YouTubeItems, MaxBatch), t \in PageTokens \cup {Undef}}

\* nextPageTokens[cacheKey] is truthy
HasToken(key) == key \in DOMAIN nextPageTokens /\ nextPageTokens[key] # "null"

\* The test of line 469 never sending the call back.
NoFurtherPages_Never(key, currentCount) == FALSE

\* Line 469: !nextPageTokens[cacheKey] && currentCount > 0
NoFurtherPages(key, currentCount) == ~HasToken(key) /\ currentCount > 0

YouTubeRequest(category, key) ==
    [path |-> "videos",
     videoCategoryId |-> IF category \in {"All", "Trending"} THEN Undef
                         ELSE YOUTUBE_CATEGORIES[category],
     pageToken |-> IF HasToken(key) THEN nextPageTokens[key] ELSE ""]

\* Lines 458-472 and, for a category without categoryId, 486-516: the call
\* up to its await, or to its end where it has none.
YouTube_fetchMoreVideos_Start(category, count) ==
    LET key == CategoryKey(category)
        currentCount == Len(Entry(key))
    IN  /\ Idle(y_pc) /\ SameKey(y_cat, category) /\ currentCount < MaxCached
        /\ y_cat' = category /\ y_count' = count /\ y_currentCount' = currentCount
        /\ y_requests' = <<>> /\ y_response' = [kind |-> "none"] /\ y_ret' = <<>>
        /\ IF NoFurtherPages(key, currentCount)
           THEN y_pc' = "done" /\ UNCHANGED <<videoCache, cacheTimestamps>>
           ELSE IF category \in {"All", "Trending"} \/ category \in DOMAIN YOUTUBE_CATEGORIES
           THEN y_pc' = "youtube" /\ UNCHANGED <<videoCache, cacheTimestamps>>
           ELSE /\ y_pc' = "done"
                /\ videoCache' = AppendToCache(key, <<>>)
                /\ cacheTimestamps' = Put(cacheTimestamps, key, now)
        /\ UNCHANGED <<nextPageTokens, now, currentInstanceIndex, catVars, searchVars,
                       resolveVars, normVars, relayVars, optVars, seqVars, overlapVars,
                       debounceVars, viewVars>>

\* Lines 474-520: `await fetchFromYouTubeAPI` resumes after one to three
\* requests; the token of the response is stored, the records are filtered
\* and appended, and the appended records are returned.
YouTube_fetchMoreVideos_Page ==
    /\ y_pc = "youtube"
    /\ \E resp \in YouTubeResponses, attempts \in 1 .. (YOUTUBE_RETRIES + 1) :
         LET key == CategoryKey(y_cat)
             newVideos == filterAdsAndPoorContent(
                              [j \in 1 .. Len(resp.items) |-> formatVideoItem(resp.items[j])])
         IN  /\ y_requests' = [j \in 1 .. attempts |-> YouTubeRequest(y_cat, key)]
             /\ y_response' = resp
             /\ y_pc' = "done"
             /\ IF resp.kind = "json"
                THEN /\ nextPageTokens' = Put(nextPageTokens, key,
                                              OrElse(resp.nextPageToken, "null"))
                     /\ videoCache' = AppendToCache(key, newVideos)
                     /\ cacheTimestamps' = Put(cacheTimestamps, key, now)
                     /\ y_ret' = newVideos
                ELSE /\ y_ret' = <<>>
                     /\ UNCHANGED <<videoCache, cacheTimestamps, nextPageTokens>>
    /\ UNCHANGED <<now, currentInstanceIndex, catVars, searchVars, resolveVars, normVars,
                   relayVars, optVars, seqVars, overlapVars, debounceVars, viewVars,
                   y_cat, y_count, y_currentCount>>

NextCursor ==
    \/ \E category \in YouTubeCategories, count \in 1 .. MaxCount :
          YouTube_fetchMoreVideos_Start(category, count)
    \/ YouTube_fetchMoreVideos_Page

SpecCursor == Init /\ [][NextCursor]_vars

---------------------------------------------------------------------------
(* SpecSequential: the two provider loops at the grain of their awaits.    *)
(* fetch(...) puts a request in flight; `await fetch` resumes when the     *)
(* response's head arrives, the request fails or its timeout aborts it;    *)
(* `await response.json()` resumes when the body is read or reading fails. *)

Operations == {"getVideoDetails", "fetchVideosByCategory"}
Endpoint(family, i) == [family |-> family, instance |-> i]

\* How `await fetch(...)` can resume: with a response that is ok, with one
\* that is not, with a rejection, or with the abort of the 5 s timeout.
HeadOutcomes == {"ok", "status", "network", "aborted"}

\* How `await response.json()` can resume.  The timeout still runs while the
\* body is read where it is an AbortSignal.timeout (lines 634, 709, 353);
\* fetchVideosByCategory's Invidious loop clears its timer first (line 301).
BodyOutcomes(op, family) ==
    {"usable", "unusable", "badjson", "network"}
      \cup (IF op = "fetchVideosByCategory" /\ family = "invidious" THEN {} ELSE {"aborted"})

\* Lines 247-258 and 624-626: the call.  fetchVideosByCategory returns at
\* once when the cache holds enough records.
Sequential_Start(op, cached) ==
    /\ q_pc \in {"idle", "done"}
    /\ q_op' = op
    /\ q_pc' = IF op = "fetchVideosByCategory" /\ cached THEN "done" ELSE "fetch"
    /\ q_family' = "invidious" /\ q_i' = 0
    /\ q_outstanding' = {} /\ q_issued' = <<>> /\ q_settled' = <<>> /\ q_how' = "none"
    /\ UNCHANGED <<cacheVars, currentInstanceIndex, catVars, searchVars, resolveVars,
                   normVars, relayVars, optVars, overlapVars, uiVars>>

\* Lines 632, 296, 707, 351: fetch(...) is called.
Sequential_Fetch ==
    /\ q_pc = "fetch"
    /\ q_outstanding' = q_outstanding \cup {Endpoint(q_family, q_i)}
    /\ q_issued' = Append(q_issued, Endpoint(q_family, q_i))
    /\ q_pc' = "awaitFetch"
    /\ UNCHANGED <<cacheVars, currentInstanceIndex, catVars, searchVars, resolveVars,
                   normVars, relayVars, optVars, overlapVars, uiVars, q_op, q_family, q_i, q_settled, q_how>>

\* `continue`, or the catch block falling through: the next element of the
\* list, the first of the next list, or the end of the call.
SequentialNext(family, i) ==
    IF family = "invidious" /\ ~InvidiousExhausted(i) THEN <<"fetch", "invidious", i + 1>>
    ELSE IF family = "invidious" THEN <<"fetch", "piped", 0>>
    ELSE IF ~PipedExhausted(i) THEN <<"fetch", "piped", i + 1>>
    ELSE <<"done", "piped", i>>

\* The request at hand is over: answered, failed or aborted.
Settle(how) ==
    /\ q_outstanding' = q_outstanding \ {Endpoint(q_family, q_i)}
    /\ q_settled' = Append(q_settled, Endpoint(q_family, q_i))
    /\ q_how' = how

\* A timeout that ends the wait and leaves the request in flight.
Sequential_AwaitFetch_Race ==
    /\ q_pc = "awaitFetch"
    /\ \E how \in HeadOutcomes :
         IF how = "ok"
         THEN /\ q_pc' = "awaitJson" /\ q_how' = how
              /\ UNCHANGED <<q_family, q_i, q_outstanding, q_settled>>
         ELSE /\ IF how = "aborted"
                 THEN /\ q_settled' = Append(q_settled, Endpoint(q_family, q_i))
                      /\ q_how' = how
                      /\ UNCHANGED q_outstanding
                 ELSE Settle(how)
              /\ q_pc' = SequentialNext(q_family, q_i)[1]
              /\ q_family' = SequentialNext(q_family, q_i)[2]
              /\ q_i' = SequentialNext(q_family, q_i)[3]
    /\ UNCHANGED <<cacheVars, currentInstanceIndex, catVars, searchVars, resolveVars,
                   normVars, relayVars, optVars, overlapVars, uiVars, q_op, q_issued>>

\* Lines 632-643, 296-306, 707-713, 351-356: `await fetch(...)` resumes.
Sequential_AwaitFetch ==
    /\ q_pc = "awaitFetch"
    /\ \E how \in HeadOutcomes :
         IF how = "ok"
         THEN /\ q_pc' = "awaitJson" /\ q_how' = how
              /\ UNCHANGED <<q_family, q_i, q_outstanding, q_settled>>
         ELSE /\ Settle(how)
              /\ q_pc' = SequentialNext(q_family, q_i)[1]
              /\ q_family' = SequentialNext(q_family, q_i)[2]
              /\ q_i' = SequentialNext(q_family, q_i)[3]
    /\ UNCHANGED <<cacheVars, currentInstanceIndex, catVars, searchVars, resolveVars,
                   normVars, relayVars, optVars, overlapVars, uiVars, q_op, q_issued>>

\* Lines 645-690, 308-330, 713-740, 356-382: `await response.json()`
\* resumes; a usable payload is returned, anything else goes on.
Sequential_AwaitJson ==
    /\ q_pc = "awaitJson"
    /\ \E how \in BodyOutcomes(q_op, q_family) :
         /\ Settle(how)
         /\ IF how = "usable"
            THEN q_pc' = "done" /\ UNCHANGED <<q_family, q_i>>
            ELSE /\ q_pc' = SequentialNext(q_family, q_i)[1]
                 /\ q_family' = SequentialNext(q_family, q_i)[2]
                 /\ q_i' = SequentialNext(q_family, q_i)[3]
    /\ UNCHANGED <<cacheVars, currentInstanceIndex, catVars, searchVars, resolveVars,
                   normVars, relayVars, optVars, overlapVars, uiVars, q_op, q_issued>>

NextSequential ==
    \/ \E op \in Operations, cached \in BOOLEAN : Sequential_Start(op, cached)
    \/ Sequential_Fetch
    \/ Sequential_AwaitFetch
    \/ Sequential_AwaitJson

SpecSequential == Init /\ [][NextSequential]_vars

---------------------------------------------------------------------------
(* SpecOptimistic: the fetch engine of unnamed/part_000, whose getInstance *)
(* probes once; with fallback enabled or disabled in the configuration.    *)

InitOptimistic ==
    /\ CacheInit /\ CatInit /\ SearchInit /\ ResolveInit /\ NormInit /\ RelayInit
    /\ enableFallback \in BOOLEAN /\ probeOk = FALSE
    /\ SeqInit /\ OverlapInit /\ UiInit

NextOptimistic ==
    \/ \E retries \in 1 .. MAX_RETRIES : fetchFromInvidiousAPI_Start(retries)
    \/ getInstance_Optimistic
    \/ fetchFromInvidiousAPI_Request
    \/ fetchFromInvidiousAPI_Delay

SpecOptimistic == InitOptimistic /\ [][NextOptimistic]_vars

---------------------------------------------------------------------------
(* Properties.                                                             *)

\* The entry of key was refreshed no longer than CACHE_EXPIRATION ago.
Fresh(key) ==
    /\ key \in DOMAIN cacheTimestamps
    /\ cacheTimestamps[key] > 0
    /\ now - cacheTimestamps[key] <= CACHE_EXPIRATION

\* The step is the call fetchVideosByCategory(c_cat', c_count', c_reset').
CategoryCall == Idle(c_pc) /\ now' = now /\ c_op' = "category"

\* C1 (Spec).  Cache short-circuit: a call of fetchVideosByCategory without
\* resetCache, for a key whose fresh entry holds at least count records,
\* returns the first count cached records, sends no request and leaves the
\* entry as it is; two such calls in a row return the same records.
C1_CacheShortCircuit ==
    [][LET key == CategoryKey(c_cat')
       IN  (/\ CategoryCall /\ ~c_reset'
            /\ Fresh(key) /\ Cached(key) /\ Len(videoCache[key]) >= c_count')
           => /\ c_pc' = "done"
              /\ c_requests' = <<>>
              /\ c_ret' = SubSeq(videoCache[key], 1, c_count')
              /\ videoCache' = videoCache /\ cacheTimestamps' = cacheTimestamps
              /\ ((/\ c_pc = "done" /\ c_op = "category" /\ ~c_reset
                   /\ c_requests = <<>> /\ c_cat = c_cat' /\ c_count = c_count')
                  => c_ret' = c_ret)]_vars

\* A short-circuit call has returned a proper prefix of the entry.
C1_Witness ==
    /\ c_pc = "done" /\ c_op = "category" /\ ~c_reset /\ c_requests = <<>>
    /\ Len(c_ret) = c_count
    /\ Len(videoCache[CategoryKey(c_cat)]) > c_count

\* C2 (Spec).  Identifier dedup: no identifier occurs more than once in the
\* record sequence cached under a key.
C2_IdentifierDedup ==
    \A key \in DOMAIN videoCache :
      \A i, j \in 1 .. Len(videoCache[key]) :
        i < j => videoCache[key][i].id # videoCache[key][j].id

\* The providers in the order getVideoDetails is to try them.
Chain(videoId) ==
    [j \in 1 .. NumInstances |-> DetailRequest("invidious", j - 1, videoId)]
      \o [j \in 1 .. NumPiped |-> DetailRequest("piped", j - 1, videoId)]

\* The step sends a detail request and handles its response r_response'.
DetailStep == Len(r_requests') = Len(r_requests) + 1
\* The family the last request went to.
LastFamily == r_requests[Len(r_requests)].family

\* The response carries at least one playable format.
Usable(family, resp) ==
    /\ resp.kind = "json"
    /\ IF family = "invidious"
       THEN Len(resp.formatStreams) > 0 \/ Len(resp.adaptiveFormats) > 0
       ELSE resp.hasStreams /\ Len(resp.videoStreams) > 0

\* C3 (SpecResolve).  Fallback ordering: when all primary providers have
\* failed and the first secondary provider succeeds, getVideoDetails returns
\* the manifest translated from that response, having sent exactly
\* NumInstances + 1 requests: the primary ones in list order, then the one
\* secondary request.
C3_FallbackOrdering ==
    /\ [](r_pc = "returned" /\ r_ret.source = "piped" /\ r_i = 0
           => /\ Len(r_requests) = NumInstances + 1
              /\ \A j \in 1 .. NumInstances :
                   r_requests[j] = DetailRequest("invidious", j - 1, r_videoId)
              /\ r_requests[NumInstances + 1] = DetailRequest("piped", 0, r_videoId)
              /\ LET mp4 == SeqFilter(r_response.videoStreams,
                                      {st \in Range(r_response.videoStreams) :
                                         st.format = "video/mp4"})
                 IN  /\ r_ret.formatStreams = [j \in 1 .. Len(mp4) |-> [url |-> mp4[j].url]]
                     /\ r_ret.adaptiveFormats = <<>>
                     /\ r_ret.hlsUrl = r_response.hls
                     /\ r_ret.directUrl = IF r_response.videoStreams = <<>> THEN NoUrl
                                           ELSE r_response.videoStreams[1].url)
    /\ [][(r_pc = "piped" /\ r_i = 0 /\ DetailStep /\ Usable("piped", r_response'))
           => r_pc' = "returned" /\ r_ret'.source = "piped"]_vars

\* All primary providers failed and the first secondary one delivered formats.
C3_Witness ==
    /\ r_pc = "returned" /\ r_ret.source = "piped"
    /\ Len(r_requests) = NumInstances + 1
    /\ Len(r_ret.formatStreams) > 0

\* C4 (SpecResolve).  Terminal exhaustion: a provider that fails (HTTP error,
\* timeout, transport error or a payload without a playable format) yields
\* no manifest, and when all have failed the terminal error is raised
\* exactly once, after every provider of both families has been tried.
C4_TerminalExhaustion ==
    /\ (r_pc = "returned" => Usable(LastFamily, r_response))
    /\ (r_pc = "thrown" => /\ r_throws = 1
                            /\ Len(r_requests) = NumInstances + NumPiped
                            /\ r_ret = NoManifest)

\* C5 (SpecResolve).  First success wins: the providers are asked in list
\* order, primary list then secondary list; a response with a playable format
\* is never passed over, the manifest returned is the one of the response
\* just received, and once a manifest is returned no further request is sent.
C5_FirstSuccessWins ==
    /\ [](\A j \in 1 .. Len(r_requests) : r_requests[j] = Chain(r_videoId)[j])
    /\ [][/\ ((DetailStep /\ Usable(r_requests'[Len(r_requests')].family, r_response'))
               => r_pc' = "returned")
           /\ ((DetailStep /\ r_pc' = "returned")
               => r_ret'.source = r_requests'[Len(r_requests')].family)
           /\ (r_pc = "returned" => ~DetailStep)]_vars

\* The second primary provider was accepted after the first was rejected.
C5_Witness ==
    /\ r_pc = "returned" /\ r_ret.source = "invidious"
    /\ Len(r_requests) = 2

\* C6 (SpecResolve).  Usable manifest: every manifest getVideoDetails returns
\* holds at least one non-empty format collection.
C6_UsableManifest ==
    r_pc = "returned" => Len(r_ret.formatStreams) > 0 \/ Len(r_ret.adaptiveFormats) > 0

\* The url is absolute: it begins with a scheme and a colon.
SchemeQualified(url) ==
    \E k \in 2 .. Len(url) :
      /\ url[k] = ":"
      /\ \A j \in 1 .. k - 1 : url[j] \notin {":", "/", "//"}

\* The urls a manifest holds.
ManifestUrls(m) ==
    ({m.formatStreams[j].url : j \in 1 .. Len(m.formatStreams)}
       \cup {m.adaptiveFormats[j].url : j \in 1 .. Len(m.adaptiveFormats)}
       \cup {m.hlsUrl, m.directUrl}) \ {NoUrl}

\* C7 (SpecResolve).  Absolute urls: every url of a returned manifest (format
\* urls, HLS url, direct url) is scheme-qualified, from either family.
C7_AbsoluteUrls ==
    r_pc = "returned" => \A url \in ManifestUrls(r_ret) : SchemeQualified(url)

\* What a format url of a primary response is returned as.
C8_Rewritten(in, out) ==
    /\ ((in # NoUrl /\ in[1] = "//") => out = <<"http", "s", ":">> \o in)
    /\ (SchemeQualified(in) => out = in)
    /\ RewriteUrl(out) = out

\* C8 (SpecResolve).  Protocol-relative rewrite: in a manifest accepted from a
\* primary provider each format url "//host/path" is returned as
\* "https://host/path", each url that is already absolute is returned
\* unchanged, and rewriting a returned url again changes nothing.
C8_ProtocolRelativeRewrite ==
    (r_pc = "returned" /\ r_ret.source = "invidious")
    => /\ Len(r_ret.formatStreams) = Len(r_response.formatStreams)
       /\ Len(r_ret.adaptiveFormats) = Len(r_response.adaptiveFormats)
       /\ \A j \in 1 .. Len(r_response.formatStreams) :
            C8_Rewritten(r_response.formatStreams[j].url, r_ret.formatStreams[j].url)
       /\ \A j \in 1 .. Len(r_response.adaptiveFormats) :
            C8_Rewritten(r_response.adaptiveFormats[j].url, r_ret.adaptiveFormats[j].url)

\* The step is a data request of the engine that failed.
FailedAttempt == s_requests' = s_requests + 1 /\ s_engine' # "returned"
Finished == s_engine \in {"returned", "thrown"}

\* C9 (FairFetch).  Bounded retry: fetchFromInvidiousAPI with a budget of
\* s_retries attempts terminates, sends at most s_retries data requests,
\* returns the payload of the first attempt that succeeds without a further
\* request, and when all attempts fail throws the error of the last one; every
\* failed attempt takes one off attemptsLeft.
C9_BoundedRetry ==
    /\ [](/\ s_requests <= s_retries
           /\ attemptsLeft >= 0
           /\ (s_engine = "returned"
               => /\ s_data.kind \in {"json", "object"}
                  /\ attemptsLeft = s_retries - (s_requests - 1))
           /\ (s_engine = "thrown"
               => /\ s_requests = s_retries /\ attemptsLeft = 0
                  /\ lastError.kind \in Failures
                  /\ lastError.attempt = s_retries))
    /\ [][/\ (FailedAttempt => /\ attemptsLeft' = attemptsLeft - 1
                                /\ lastError'.attempt = s_requests')
           /\ (Finished => s_requests' = s_requests \/ s_requests' = 0)]_vars
    /\ (s_engine = "running") ~> Finished

\* Every attempt of a full budget failed and the last error was thrown.
C9_Witness ==
    /\ s_engine = "thrown" /\ s_retries = MAX_RETRIES
    /\ s_requests = MAX_RETRIES /\ lastError.attempt = MAX_RETRIES

\* C10 (FairFetch).  A non-success status, a transport failure and a timeout
\* are handled alike: each takes one attempt, advances the provider cursor by
\* one, and is followed by the delay exactly when attempts remain.
C10_FailureHandling ==
    /\ [][FailedAttempt
           => /\ lastError'.kind \in Failures
              /\ attemptsLeft' = attemptsLeft - 1
              /\ currentInstanceIndex' = (currentInstanceIndex + 1) % NumInstances
              /\ (s_pc' = "delay" <=> attemptsLeft' > 0)]_vars
    /\ [](LET failed == s_retries - attemptsLeft
           IN  /\ (s_engine = "running"
                   => s_delays = IF s_pc = "delay" THEN failed - 1 ELSE failed)
               /\ (s_engine = "returned" => s_delays = failed)
               /\ (s_engine = "thrown" => s_delays = s_retries - 1))

\* A full budget was used up by failures, the last a non-success status, with
\* a delay after each but the last.
C10_Witness ==
    /\ s_engine = "thrown" /\ lastError.kind = "status"
    /\ s_retries = MAX_RETRIES /\ s_delays = MAX_RETRIES - 1

\* C11 (SpecConcurrent).  Cursor validity: whatever the interleaving of
\* probes and failure rotations of concurrent invocations, the provider cursor
\* is an index of the provider list.
C11_CursorValidity ==
    currentInstanceIndex >= 0 /\ currentInstanceIndex < NumInstances

\* The cursor has wrapped around: it is back at the first instance after a
\* failed attempt and rotations of a concurrent invocation.
C11_Witness ==
    /\ currentInstanceIndex = 0 /\ s_engine = "running"
    /\ s_requests >= 1 /\ s_pc = "select"
    /\ Len(s_probes) >= 1 /\ s_probes[1] = NumInstances - 1

\* getInstance has given up: every probe of the call failed.
GaveUp == s_pc = "request" /\ instancesChecked = NumInstances

\* Every instance was probed exactly once.
ProbedEachOnce ==
    /\ Len(s_probes) = NumInstances
    /\ \A i \in INVIDIOUS_INSTANCES : Cardinality({j \in 1 .. Len(s_probes) : s_probes[j] = i}) = 1

\* C12 (FairFetch), as stated.  When all probes fail, getInstance issues one
\* probe per instance and returns the instance it probed last.
C12_ReturnsLastProbed ==
    GaveUp => ProbedEachOnce /\ s_instance = s_probes[Len(s_probes)]

\* C12 (FairFetch), amended.  When all probes fail, getInstance issues one
\* probe per instance and returns the first instance of the list, whatever
\* its health and wherever the probing began.
C12_ReturnsFirst ==
    GaveUp => ProbedEachOnce /\ s_instance = 0

\* getInstance gave up after probing from a cursor that was not at the first
\* instance, so the last one probed is not the one returned.
C12_Witness ==
    GaveUp /\ s_probes[1] # 0 /\ s_probes[Len(s_probes)] # s_instance /\ s_instance = 0

\* A call of fetchVideosByCategory is between its first step and its return.
CategoryRunning(pc) == pc \in {"invidious", "piped"}

\* The record sequences one call of fetchVideosByCategory can obtain: a
\* formatted provider batch or the static default records of the category.
Obtainable ==
    {FormatInvidious(d) : d \in SeqsUpTo(InvidiousItems, MaxBatch) \ {<<>>}}
      \cup {FormatPiped(d) : d \in SeqsUpTo(PipedItems, MaxBatch) \ {<<>>}}
      \cup {FALLBACK_VIDEOS[cat] : cat \in {cat \in Categories : HasFallback(cat)}}

\* The map f holds value at key.
Holds(f, key, value) == key \in DOMAIN f /\ f[key] = value

\* C13 (Spec).  Refresh clears the entry: a call of fetchVideosByCategory with
\* resetCache, or for a key without timestamp or older than CACHE_EXPIRATION,
\* empties the entry and sets its page token to null in its first step, before
\* any request; the entry stays as it is until the call returns, and the
\* returning step appends the records obtained to it, so a call that cleared
\* leaves exactly the records it obtained.
C13_RefreshClears ==
    /\ [][LET key == CategoryKey(c_cat')
           IN  (CategoryCall /\ (c_reset' \/ ~Fresh(key)))
               => /\ Holds(videoCache', key, <<>>)
                  /\ Holds(nextPageTokens', key, "null")
                  /\ c_requests' = <<>> /\ CategoryRunning(c_pc')]_vars
    /\ [][LET key == CategoryKey(c_cat)
           IN  (c_op = "category" /\ CategoryRunning(c_pc))
               => /\ CategoryRunning(c_pc') => videoCache' = videoCache
                  /\ c_pc' = "done"
                     => \E got \in Obtainable :
                          Holds(videoCache', key, Entry(key) \o got)]_vars
    /\ []((c_op = "category" /\ c_reset /\ CategoryRunning(c_pc))
           => Holds(videoCache, CategoryKey(c_cat), <<>>))
    /\ []((c_op = "category" /\ c_reset /\ c_pc = "done")
           => \E got \in Obtainable : Holds(videoCache, CategoryKey(c_cat), got))

\* A refreshing call returned after a provider had failed; the entry holds
\* what the call obtained.
C13_Witness ==
    /\ c_op = "category" /\ c_reset /\ c_pc = "done"
    /\ Len(c_requests) >= 2
    /\ videoCache[CategoryKey(c_cat)] \in Obtainable
    /\ cacheTimestamps[CategoryKey(c_cat)] = now /\ now > 1

\* The step is the return of fetchVideosByCategory("Music", c_count) from its
\* first request, made on an empty entry.
FirstPageOfMusic ==
    /\ c_op = "category" /\ c_cat = "Music"
    /\ c_pc = "invidious" /\ c_i = 0 /\ c_requests = <<>>
    /\ Entry(CategoryKey("Music")) = <<>>
    /\ c_pc' = "done"

\* The one request of the scenario: the trending endpoint of the first
\* instance, with the region and the type the category maps to.
MusicRequest ==
    [family |-> "invidious", instance |-> 0,
     endpoint |-> [path |-> "trending", region |-> "US", type |-> "music"]]

\* The call returned the first c_count of the normalized records of a batch
\* and cached the batch.
ReturnedPrefixOfBatch ==
    \E d \in SeqsUpTo(InvidiousItems, MaxBatch) \ {<<>>} :
      /\ Holds(videoCache', CategoryKey("Music"), FormatInvidious(d))
      /\ c_ret' = SubSeq(FormatInvidious(d), 1, IF Len(d) < c_count THEN Len(d) ELSE c_count)

\* C14 (Spec), as stated.  First page of a category: on an empty cache with a
\* healthy first provider the call sends exactly one request, to the
\* category's endpoint with the region parameter, returns at most c_count
\* normalized records, and leaves an entry as long as the sequence returned.
C14_FirstPageLengths ==
    [][FirstPageOfMusic
       => /\ c_requests' = <<MusicRequest>>
          /\ Len(c_ret') <= c_count
          /\ ReturnedPrefixOfBatch
          /\ Len(videoCache'[CategoryKey("Music")]) = Len(c_ret')]_vars

\* C14 (Spec), amended.  As above, but the entry holds the whole batch the
\* provider sent and the sequence returned is its first c_count records: the
\* entry is at least as long as the sequence returned, and as long when the
\* batch has no more than c_count records.
C14_FirstPage ==
    [][FirstPageOfMusic
       => /\ c_requests' = <<MusicRequest>>
          /\ Len(c_ret') <= c_count
          /\ ReturnedPrefixOfBatch
          /\ Len(videoCache'[CategoryKey("Music")]) >= Len(c_ret')
          /\ (Len(videoCache'[CategoryKey("Music")]) <= c_count
              => videoCache'[CategoryKey("Music")] = c_ret')]_vars

\* The first provider sent more records than were asked for: all are cached,
\* c_count are returned.
C14_Witness ==
    /\ c_op = "category" /\ c_cat = "Music" /\ c_pc = "done" /\ c_reset
    /\ c_requests = <<MusicRequest>>
    /\ Len(c_ret) = c_count
    /\ Len(videoCache[CategoryKey("Music")]) > c_count

\* The step is the call searchVideos(s_query', s_count').
SearchCall == Idle(s_pc) /\ now' = now /\ s_op' = "search"

\* The step is a data request of the engine answered by an empty array.
EmptyAnswer == s_pc = "request" /\ s_requests' = s_requests + 1 /\ s_data' = Parsed(<<>>)

\* C15 (SpecSearch).  Empty search result: when the provider answers a search
\* with an empty array, searchVideos returns the empty sequence without
\* raising and records an entry with no records and the current time; the
\* same call made while that entry is fresh returns the empty sequence
\* without a probe or a data request.
C15_EmptySearchResult ==
    /\ [][(s_op = "search" /\ EmptyAnswer)
           => /\ s_pc' = "done" /\ s_ret' = <<>>
              /\ Holds(videoCache', SearchKey(s_query), <<>>)
              /\ Holds(cacheTimestamps', SearchKey(s_query), now)]_vars
    /\ [][LET key == SearchKey(s_query')
           IN  (SearchCall /\ Holds(videoCache, key, <<>>) /\ Fresh(key))
               => /\ s_pc' = "done" /\ s_ret' = <<>>
                  /\ s_requests' = 0 /\ s_probes' = <<>> /\ s_engine' = "none"
                  /\ videoCache' = videoCache
                  /\ cacheTimestamps' = cacheTimestamps]_vars

\* A search was answered from the empty entry recorded earlier.
C15_Witness ==
    /\ s_op = "search" /\ s_pc = "done" /\ s_engine = "none" /\ s_ret = <<>>
    /\ Holds(videoCache, SearchKey(s_query), <<>>)
    /\ Fresh(SearchKey(s_query)) /\ now > cacheTimestamps[SearchKey(s_query)]

---------------------------------------------------------------------------
(* C16: an ok response carrying the empty array ends the category call:    *)
(* once fetchVideosByCategory has received one, it issues no further       *)
(* request (no other instance, no Piped instance) and has returned the      *)
(* empty sequence.                                                          *)

C16_EmptyIsNotFailure ==
    (c_op = "category" /\ "empty" \in c_outcomes)
        => (c_pc = "done" /\ c_ret = <<>>)

---------------------------------------------------------------------------
(* C17: a call of fetchVideosByCategory in which every provider request    *)
(* failed ends by returning the empty sequence, and does not throw.        *)

C17_FailureDegradesToEmpty ==
    (c_op = "category" /\ Idle(c_pc) /\ c_outcomes = {"failed"})
        => (c_pc = "done" /\ c_ret = <<>>)

---------------------------------------------------------------------------
(* C18: fetchMoreVideos and fetchMoreSearchResults never throw: each call   *)
(* ends by returning a sequence, whatever the requests came to; and a call  *)
(* that appended nothing to the cache entry (every request failed or        *)
(* brought the empty array or only records already cached, and no static    *)
(* default record was left unused) returns the empty sequence.              *)

MoreVideosEnds == c_op = "more" /\ c_pc = "invidious" /\ Idle(c_pc')
MoreSearchEnds == s_op = "moreSearch" /\ ~Idle(s_pc) /\ Idle(s_pc')

C18_MoreNeverRaises ==
    [][ /\ (MoreVideosEnds => c_pc' = "done")
        /\ (MoreVideosEnds /\ videoCache' = videoCache => c_ret' = <<>>)
        /\ (MoreSearchEnds => s_pc' = "done")
        /\ (MoreSearchEnds /\ videoCache' = videoCache => s_ret' = <<>>) ]_vars

\* fetchMoreVideos("Music") has asked every instance, found nothing new and
\* no static default record left, and has returned [].
C18_Witness ==
    /\ c_op = "more" /\ c_cat = "Music" /\ c_pc = "done"
    /\ Len(c_requests) = NumInstances
    /\ UniqueNew(CategoryKey("Music"), FALLBACK_VIDEOS["Music"]) = <<>>
    /\ c_ret = <<>>

---------------------------------------------------------------------------
(* C19: what a call of fetchMoreVideos or fetchMoreSearchResults returns   *)
(* is what it appended: the cache entry after the call is the entry before *)
(* it followed by the returned records, in their order.                    *)

EntryAfter(key) == IF key \in DOMAIN videoCache' THEN videoCache'[key] ELSE <<>>

C19_ReturnsWhatItAppended ==
    [][ /\ (MoreVideosEnds =>
              EntryAfter(CategoryKey(c_cat)) = Entry(CategoryKey(c_cat)) \o c_ret')
        /\ (MoreSearchEnds =>
              EntryAfter(SearchKey(s_query)) = Entry(SearchKey(s_query)) \o s_ret') ]_vars

---------------------------------------------------------------------------
(* C20: every record a normalizer makes has its five fields present and    *)
(* not null - identifier, title, channel, views display, age display -     *)
(* whichever fields the raw item lacks.                                    *)

ViewsDisplayed(views) == views.unit \in {"", "K", "M", "Loading..."}

C20_RecordTotality ==
    n_pc = "done" =>
        /\ n_record.id # Undef
        /\ n_record.title # Undef
        /\ n_record.channel # Undef
        /\ ViewsDisplayed(n_record.views)
        /\ n_record.timestamp # Undef

---------------------------------------------------------------------------
(* C21: formatViewCount renders a count that is no number as "0 views", a  *)
(* count below 1000 as the integer itself, a count from 1000 up to 999999  *)
(* in thousands with one decimal and the suffix K, a count from 1000000 in *)
(* millions with one decimal and the suffix M (999 -> "999 views", 1000 -> *)
(* "1.0K views", 999999 -> "1000.0K views", 1000000 -> "1.0M views"); the  *)
(* rendering depends on the count alone, and no smaller count is rendered  *)
(* with a larger magnitude.                                                *)

\* The count formatViewCount was applied to, after parseInt for a string.
CountFormatted ==
    IF n_family = "count" THEN n_item.viewCount ELSE parseInt(n_item.viewCount)

\* The number a rendering stands for.
Magnitude(views) ==
    IF views.unit = "K" THEN (views.int * 10 + views.dec) * 100
    ELSE IF views.unit = "M" THEN (views.int * 10 + views.dec) * 100000
    ELSE views.int

\* views is count in the given unit, to the nearest tenth
OneDecimal(views, count, unit) ==
    /\ views.dec \in 0 .. 9 /\ views.int >= 0
    /\ (views.int * 10 + views.dec) * (unit \div 10) - count <= unit \div 20
    /\ count - (views.int * 10 + views.dec) * (unit \div 10) <= unit \div 20

C21_ViewCountFormatting ==
    (n_pc = "done" /\ n_family \in {"count", "countString"}) =>
        LET n == CountFormatted
            views == n_record.views
        IN  /\ views = formatViewCount(n)
            /\ (n = NaN => views = Views(0, NoDec, ""))
            /\ (n >= 0 /\ n < 1000 => views = Views(n, NoDec, ""))
            /\ (n >= 1000 /\ n < 1000000 =>
                   views.unit = "K" /\ OneDecimal(views, n, 1000))
            /\ (n >= 1000000 => views.unit = "M" /\ OneDecimal(views, n, 1000000))
            /\ (n = 999 => views = Views(999, NoDec, ""))
            /\ (n = 1000 => views = Views(1, 0, "K"))
            /\ (n = 999999 => views = Views(1000, 0, "K"))
            /\ (n = 1000000 => views = Views(1, 0, "M"))
            /\ (n # NaN => \A m \in Counts :
                   m < n => Magnitude(formatViewCount(m)) <= Magnitude(views))

\* 999999 has been formatted and is shown as "1000.0K views".
C21_Witness ==
    /\ n_pc = "done" /\ n_family = "count" /\ n_item.viewCount = 999999
    /\ n_record.views = Views(1000, 0, "K")

---------------------------------------------------------------------------
(* C22: the relay answers a request whose target url names a host outside  *)
(* the allow-list with 403, and a request without url with 400, in both    *)
(* cases without an upstream request; and no upstream request ever goes to *)
(* a host outside the allow-list.                                          *)

C22_RelayAllowList ==
    /\ (p_pc = "done" /\ p_url.kind = "url" /\ Hostname(p_url) \notin ALLOWED_DOMAINS
          => p_response.status = 403 /\ p_requests = <<>>)
    /\ (p_pc = "done" /\ p_url.kind = "absent"
          => p_response.status = 400 /\ p_requests = <<>>)
    /\ \A j \in 1 .. Len(p_requests) : p_requests[j] \in ALLOWED_DOMAINS

---------------------------------------------------------------------------
(* C23: in fetchFromInvidiousAPI, when the data request of an attempt to   *)
(* endpoint e has failed and another attempt follows, the data request of  *)
(* that attempt goes to an endpoint other than e.                          *)

\* getInstance returns in an attempt that follows a failed one; s_instance
\* is still the endpoint of the failed request, s_instance' the new one.
SelectedAgain == s_pc = "select" /\ s_pc' = "request" /\ s_requests >= 1

---------------------------------------------------------------------------
(* C24: a call of getInstance in which a probe succeeds has probed the     *)
(* endpoints in cyclic list order from the cursor value on entry, each     *)
(* probe before the last having failed; it returns the endpoint probed     *)
(* last, the first one whose probe succeeded, leaves the cursor on it, and *)
(* probes no endpoint after it.                                            *)

\* getInstance returns from a probe that succeeded
ProbeSucceeded ==
    s_pc = "select" /\ s_pc' = "request" /\ instancesChecked' < NumInstances

\* probes lists endpoints in cyclic list order
CyclicOrder(probes) ==
    \A j \in 1 .. Len(probes) : probes[j] = (probes[1] + j - 1) % NumInstances

C24_FirstLiveEndpoint ==
    [][ /\ (ProbeSucceeded =>
              /\ CyclicOrder(s_probes')
              /\ Len(s_probes') = instancesChecked' + 1
              /\ s_instance' = s_probes'[Len(s_probes')]
              /\ currentInstanceIndex' = s_instance')
        /\ (s_pc = "request" => s_probes' = s_probes \/ s_probes' = <<>>) ]_vars

\* getInstance has returned the third endpoint it probed, after wrapping
\* around the end of the list.
C24_Witness ==
    /\ s_pc = "request" /\ instancesChecked = 2 /\ Len(s_probes) = 3
    /\ s_probes[3] < s_probes[1] /\ s_instance = s_probes[3]
    /\ currentInstanceIndex = s_instance

---------------------------------------------------------------------------
(* C25: while other invocations advance the shared cursor, one invocation  *)
(* of getInstance probes no endpoint twice, and when it gives up it has    *)
(* probed every endpoint.                                                  *)

C25_OneProbePerEndpoint ==
    /\ \A j, k \in 1 .. Len(s_probes) : s_probes[j] = s_probes[k] => j = k
    /\ (GaveUp => Range(s_probes) = INVIDIOUS_INSTANCES)

---------------------------------------------------------------------------
(* C26: the getInstance of unnamed/part_000 issues exactly one probe, of   *)
(* the endpoint at the cursor.  When the probe succeeds it returns that    *)
(* endpoint and leaves the cursor; when it fails and fallback is enabled   *)
(* it advances the cursor by one modulo the list length and returns the    *)
(* endpoint there without a probe; when it fails and fallback is disabled  *)
(* it leaves the cursor and returns the endpoint it probed.                *)

C26_OptimisticSelect ==
    [][ s_pc = "select" =>
          /\ s_pc' = "request"
          /\ s_probes' = <<currentInstanceIndex>>
          /\ (probeOk' =>
                s_instance' = currentInstanceIndex /\ UNCHANGED currentInstanceIndex)
          /\ (~probeOk' /\ enableFallback =>
                /\ currentInstanceIndex' = (currentInstanceIndex + 1) % NumInstances
                /\ s_instance' = currentInstanceIndex')
          /\ (~probeOk' /\ ~enableFallback =>
                s_instance' = currentInstanceIndex /\ UNCHANGED currentInstanceIndex)
      ]_vars

\* The probe of the last endpoint of the list failed, and the first endpoint
\* is returned unprobed.
C26_Witness ==
    /\ s_pc = "request" /\ enableFallback /\ ~probeOk
    /\ s_probes = <<NumInstances - 1>> /\ s_instance = 0 /\ currentInstanceIndex = 0

---------------------------------------------------------------------------
(* C27: getVideoDetails terminates whatever the providers answer, issues   *)
(* at most one request to each configured endpoint, hence at most          *)
(* |INVIDIOUS_INSTANCES| + |pipedInstances| requests, and never asks the   *)
(* same endpoint twice within one invocation.  Termination is stated by a  *)
(* variant: a running invocation always has a pass to take, the passes are  *)
(* taken (FairResolve), and each pass strictly decreases the number of     *)
(* endpoints still to ask, which is zero exactly when the call has ended.  *)

Resolving == r_pc \in {"invidious", "piped"}
EndpointsLeft ==
    IF r_pc = "invidious" THEN (NumInstances - r_i) + NumPiped
    ELSE IF r_pc = "piped" THEN NumPiped - r_i
    ELSE 0

C27_ResolveTerminatesWithinBound ==
    /\ [](/\ Len(r_requests) <= NumInstances + NumPiped
          /\ \A j, k \in 1 .. Len(r_requests) :
                (r_requests[j].family = r_requests[k].family
                   /\ r_requests[j].instance = r_requests[k].instance) => j = k
          /\ \A j \in 1 .. Len(r_requests) :
                r_requests[j].instance \in
                   (IF r_requests[j].family = "invidious" THEN INVIDIOUS_INSTANCES
                                                          ELSE PipedInstances)
          /\ EndpointsLeft >= 0
          /\ (Resolving => ENABLED (getVideoDetails_Invidious \/ getVideoDetails_Piped)))
    /\ [][Resolving => EndpointsLeft' < EndpointsLeft]_vars

\* Every endpoint of both families was asked once and the call has thrown.
C27_Witness ==
    /\ r_pc = "thrown" /\ Len(r_requests) = NumInstances + NumPiped
    /\ r_requests[1].family = "invidious"
    /\ r_requests[Len(r_requests)] = DetailRequest("piped", NumPiped - 1, r_videoId)

---------------------------------------------------------------------------
(* C28: within one invocation of getVideoDetails or fetchVideosByCategory  *)
(* at most one request is in flight at any time, and a request is issued   *)
(* only when every request issued before it has been answered, has failed  *)
(* or has been aborted by its timeout.                                     *)

IssueStep == Len(q_issued') = Len(q_issued) + 1

C28_SequentialAttempts ==
    /\ [](/\ Cardinality(q_outstanding) <= 1
          /\ Len(q_settled) <= Len(q_issued)
          /\ \A j \in 1 .. Len(q_settled) : q_settled[j] = q_issued[j])
    /\ [][IssueStep => q_outstanding = {} /\ q_settled = q_issued]_vars

\* fetchVideosByCategory has its first Piped request in flight, after the
\* last Invidious request was aborted by its timeout.
C28_Witness ==
    /\ q_op = "fetchVideosByCategory" /\ q_pc = "awaitFetch"
    /\ q_how = "aborted" /\ Len(q_settled) = NumInstances
    /\ q_outstanding = {Endpoint("piped", 0)}

---------------------------------------------------------------------------
(* C29: getVideoDetails is independent of the metadata state.  No step of  *)
(* it changes the provider cursor, the record cache, the cache timestamps  *)
(* or the pagination cursors; its requests go to the endpoints in list     *)
(* order from the first primary endpoint on, whatever the cursor and the   *)
(* cache hold; a call keeps nothing of the call before it, so a call that  *)
(* has ended has issued at least one request of its own.                   *)

ResolveStep == resolveVars' # resolveVars

\* The endpoint the j-th request of an invocation goes to.
EndpointInOrder(j) ==
    IF j <= NumInstances THEN <<"invidious", j - 1>> ELSE <<"piped", j - NumInstances - 1>>

C29_ResolveIgnoresMetadata ==
    /\ [](/\ \A j \in 1 .. Len(r_requests) :
                r_requests[j] =
                   DetailRequest(EndpointInOrder(j)[1], EndpointInOrder(j)[2], r_videoId)
          /\ (r_pc \in {"returned", "thrown"} => Len(r_requests) >= 1))
    /\ [][ /\ (ResolveStep => UNCHANGED <<cacheVars, currentInstanceIndex>>)
           /\ (r_pc \in {"returned", "thrown"} /\ r_pc' = "invidious"
                 => r_i' = 0 /\ r_requests' = <<>> /\ r_ret' = NoManifest) ]_vars

\* A call has returned a manifest with the cursor at the last endpoint and
\* the cache loaded; its first request went to the first endpoint.
C29_Witness ==
    /\ r_pc = "returned" /\ CacheLoaded
    /\ currentInstanceIndex = NumInstances - 1 /\ currentInstanceIndex # 0
    /\ r_requests[1] = DetailRequest("invidious", 0, r_videoId)

---------------------------------------------------------------------------
(* C30: when the two invocations of fetchVideosByCategory the feed starts  *)
(* on mounting, both with resetCache and both for category_Trending, have  *)
(* completed, the cache entry equals the batch of exactly one of them, the *)
(* one that wrote last; it is never the concatenation of both batches.     *)

BothComplete == \A p \in Callers : o_pc[p] = "done"

C30_LastWriteWins ==
    BothComplete =>
        /\ \E p \in Callers : Entry(TrendingKey) = o_batch[p]
        /\ \A p, q \in Callers :
              (p # q /\ o_batch[p] # <<>> /\ o_batch[q] # <<>>)
                 => Entry(TrendingKey) # o_batch[p] \o o_batch[q]

---------------------------------------------------------------------------
(* C31: in a burst of calls of debouncedSearchVideos, each within the      *)
(* delay of the one before it, searchVideos is invoked exactly once, for   *)
(* the query and count of the last call and no earlier than the delay      *)
(* after it, and only the callback of the last call is invoked.  Exactly   *)
(* once: while the burst lasts the last call's timer is pending and        *)
(* nothing was invoked, or the timer is spent and the one invocation is    *)
(* that of the last call.                                                  *)

LastCall == Len(d_calls)
FireStep == Len(d_invoked') = Len(d_invoked) + 1

C31_DebounceCoalesces ==
    /\ [](d_burst /\ d_calls # <<>> =>
            /\ \/ d_timer = LastCall /\ d_invoked = <<>>
               \/ d_timer = 0 /\ d_invoked = <<LastCall>>
            /\ \A j \in 1 .. Len(d_delivered) : d_delivered[j].call = LastCall
            /\ Len(d_delivered) <= 1)
    /\ [][FireStep /\ d_burst =>
            /\ d_since >= DEBOUNCE_DELAY
            /\ d_calls[d_invoked'[Len(d_invoked')]] = d_calls[LastCall]]_vars

\* A burst of three calls ended with one search, for the last call, whose
\* callback was invoked.
C31_Witness ==
    /\ d_burst /\ Len(d_calls) >= 3 /\ d_invoked = <<LastCall>>
    /\ d_calls[1].query # d_calls[LastCall].query
    /\ Len(d_delivered) = 1 /\ d_delivered[1].results = ResultsFor(d_calls[LastCall].query)

---------------------------------------------------------------------------
(* C32: for any sequence of calls of debouncedSearchVideos, also calls     *)
(* made while an earlier search is in flight, the results of an older      *)
(* call are never delivered after those of a newer one, and once nothing   *)
(* is pending the last callback invoked is that of the last call.          *)

C32_LatestQueryWins ==
    /\ \A j, k \in 1 .. Len(d_delivered) :
          j < k => d_delivered[j].call < d_delivered[k].call
    /\ (d_timer = 0 /\ d_inflight = {} /\ d_delivered # <<>>
          => d_delivered[Len(d_delivered)].call = LastCall)

---------------------------------------------------------------------------
(* C33: every operation on a cache entry that does not reset it (no        *)
(* resetCache, no expiry, no replacement by searchVideos) leaves the       *)
(* records it held as a prefix of the records it holds afterwards: none    *)
(* is removed, reordered or modified.                                      *)

\* fetchVideosByCategory clearing the entry, or searchVideos storing its
\* result.
ResetStep ==
    \/ /\ Idle(c_pc) /\ c_op' = "category" /\ c_pc' # c_pc
       /\ (c_reset' \/ isCacheExpired(CategoryKey(c_cat')))
    \/ s_op = "search" /\ s_pc # "done" /\ s_pc' = "done"

C33_AppendOnly ==
    [][~ResetStep =>
         \A key \in DOMAIN videoCache :
            key \in DOMAIN videoCache' /\ IsPrefix(videoCache[key], videoCache'[key])]_vars

\* fetchVideosByCategory, without resetCache, has fetched a batch onto an
\* entry that held a record already.
C33_Witness ==
    /\ c_op = "category" /\ c_pc = "done" /\ ~c_reset /\ c_requests # <<>>
    /\ Len(Entry(CategoryKey(c_cat))) > MaxBatch

---------------------------------------------------------------------------
(* C34: in fetchVideosByCategory a Piped provider is requested only after  *)
(* every Invidious provider was requested, in list order, and rejected in  *)
(* this call; the static default records are used only after every Piped   *)
(* provider was requested and rejected as well; the error is raised only   *)
(* when, beyond that, the category has no static default records.          *)

\* The first n requests of the call went to the two provider lists in order.
RequestsInOrder(n) ==
    \A j \in 1 .. n :
       IF j <= NumInstances
       THEN c_requests[j] = Request("invidious", j - 1, CategoryRequest(c_cat))
       ELSE c_requests[j] = Request("piped", j - NumInstances - 1,
                                    PipedCategoryRequest(c_cat))

\* No response of the call has brought records.
AllRejected == "records" \notin c_outcomes
\* The call ended without a provider's records: by the static defaults.
DefaultsUsed == c_pc = "done" /\ c_requests # <<>> /\ AllRejected

C34_LayeredFallback ==
    c_op = "category" =>
       /\ Len(c_requests) <= NumInstances + NumPiped
       /\ RequestsInOrder(Len(c_requests))
       /\ (CategoryRunning(c_pc) => AllRejected)
       /\ (c_pc = "piped" => Len(c_requests) >= NumInstances)
       /\ (DefaultsUsed =>
             /\ Len(c_requests) = NumInstances + NumPiped
             /\ HasFallback(c_cat)
             /\ LET entry == Entry(CategoryKey(c_cat))
                     defaults == FALLBACK_VIDEOS[c_cat]
                 IN  /\ Len(entry) >= Len(defaults)
                     /\ SubSeq(entry, Len(entry) - Len(defaults) + 1, Len(entry)) = defaults
                     /\ c_ret = Slice(entry, c_count))
       /\ (c_pc = "thrown" =>
             /\ Len(c_requests) = NumInstances + NumPiped
             /\ AllRejected
             /\ ~HasFallback(c_cat))

\* Every provider of both lists rejected the request and the static default
\* records of Music were stored.
C34_Witness ==
    /\ c_op = "category" /\ c_cat = "Music" /\ DefaultsUsed
    /\ Len(c_requests) = NumInstances + NumPiped
    /\ Entry(CategoryKey("Music")) = FALLBACK_VIDEOS["Music"]

---------------------------------------------------------------------------
(* C35: for one search key and one count, fetchMoreSearchResults requests  *)
(* page ceil(cached length / count) + 1; on an existing entry it never     *)
(* requests page 1 and never the page the call before it requested for     *)
(* that entry.                                                             *)

MoreSearchStart == Idle(s_pc) /\ s_op' = "moreSearch" /\ s_pc' # s_pc

C35_NeverRepeatsPage ==
    [][MoreSearchStart =>
         /\ s_page' = NextPage(Len(videoCache[SearchKey(s_query')]), s_count')
         /\ s_page' # 1
         /\ (s_op = "moreSearch" /\ s_count' = s_count => s_page' # s_page)]_vars

---------------------------------------------------------------------------
(* C36: in the fetchMoreVideos of youtube-api.ts, a call on a non-empty    *)
(* entry whose pagination cursor is null returns the empty sequence,       *)
(* issues no request and leaves the entry, its timestamp and its cursor    *)
(* as they were; after a page was fetched the stored cursor is the token   *)
(* of that response, or null when the response carried none.               *)

CursorCall == Idle(y_pc) /\ y_pc' # "idle" /\ y_response' = [kind |-> "none"]
CursorKey == CategoryKey(y_cat)

C36_NullCursorEnds ==
    /\ [][(CursorCall /\ Len(Entry(CategoryKey(y_cat'))) > 0
             /\ Holds(nextPageTokens, CategoryKey(y_cat'), "null"))
            => /\ y_pc' = "done" /\ y_ret' = <<>> /\ y_requests' = <<>>
               /\ UNCHANGED <<videoCache, cacheTimestamps, nextPageTokens>>]_vars
    /\ [][(y_pc = "youtube" /\ y_response'.kind = "json")
            => Holds(nextPageTokens', CursorKey,
                     IF y_response'.nextPageToken = Undef THEN "null"
                     ELSE y_response'.nextPageToken)]_vars

\* The last page was fetched, its response carried no token, and the next
\* call came back empty-handed without a request.
C36_Witness ==
    /\ y_pc = "done" /\ y_response.kind = "none" /\ y_requests = <<>> /\ y_ret = <<>>
    /\ Len(Entry(CursorKey)) > 0 /\ Holds(nextPageTokens, CursorKey, "null")
    /\ y_cat = "Music"

---------------------------------------------------------------------------
(* SpecPlayer: one VideoPlayer and the runs of its loading effect          *)
(* (video-player.tsx lines 38-193).  A run ends when the dependencies of   *)
(* the effect change or the component unmounts: its cleanup clears the     *)
(* isMounted flag the run closes over.                                     *)

MaxRuns == 3
PlayerVideoIds == {"kJQP7kiw5Fk", "8X2kIfS6fb8"}

\* What getVideoDetails delivers to a run: it throws, or it returns a
\* manifest with or without a length and with or without a playable url.
PlayerOutcomes ==
    {[kind |-> "error", urls |-> FALSE, lengthSeconds |-> FALSE]}
      \cup {[kind |-> "manifest", urls |-> u, lengthSeconds |-> l] :
               u \in BOOLEAN, l \in BOOLEAN}

\* Lines 183-192: the cleanup of the current run.
Cleanup(runs) ==
    IF runs = <<>> THEN runs
    ELSE [runs EXCEPT ![Len(runs)].isMounted = FALSE]

\* Lines 38-46 and 181: the effect runs with the dependencies it sees.
StartRun(runs, videoId, errorRetryCount) ==
    Append(runs, [videoId |-> videoId, retry |-> errorRetryCount,
                  isMounted |-> TRUE, pending |-> TRUE, applied |-> FALSE])

\* Lines 53-177: the state setters a run calls once getVideoDetails settled.
ApplyOutcome(state, run, outcome) ==
    IF outcome.kind = "error"
    THEN [state EXCEPT !.playerError = TRUE, !.isLoading = FALSE]
    ELSE LET timed == IF outcome.lengthSeconds
                      THEN [state EXCEPT !.duration = run.videoId] ELSE state
         IN  IF outcome.urls
             THEN [timed EXCEPT !.directUrls = run.videoId, !.playerReady = TRUE,
                                !.isLoading = FALSE]
             ELSE [timed EXCEPT !.playerError = TRUE, !.isLoading = FALSE]

\* The component mounts: first render and first run of the effect.
Player_Mount(videoId) ==
    /\ ~v_mounted /\ v_runs = <<>>
    /\ v_mounted' = TRUE /\ v_videoId' = videoId /\ v_errorRetryCount' = 0
    /\ v_state' = InitialPlayerState
    /\ v_runs' = StartRun(v_runs, videoId, 0)
    /\ UNCHANGED <<cacheVars, currentInstanceIndex, catVars, searchVars, resolveVars,
                   normVars, relayVars, optVars, seqVars, overlapVars, debounceVars,
                   cursorVars, feedVars, v_settled>>

\* The videoId prop changes: cleanup of the run, then a new run (lines 38-46
\* do not reset directUrls, duration or playerReady).
Player_ChangeVideoId(videoId) ==
    /\ v_mounted /\ videoId # v_videoId /\ Len(v_runs) < MaxRuns
    /\ v_videoId' = videoId
    /\ v_state' = [v_state EXCEPT !.playerError = FALSE, !.isLoading = TRUE]
    /\ v_runs' = StartRun(Cleanup(v_runs), videoId, v_errorRetryCount)
    /\ UNCHANGED <<cacheVars, currentInstanceIndex, catVars, searchVars, resolveVars,
                   normVars, relayVars, optVars, seqVars, overlapVars, debounceVars,
                   cursorVars, feedVars, v_mounted, v_errorRetryCount, v_settled>>

\* Lines 230-234: the video element reports a playback error.
Player_handleError ==
    /\ v_mounted /\ v_state.playerReady /\ ~v_state.playerError
    /\ v_state' = [v_state EXCEPT !.playerError = TRUE]
    /\ UNCHANGED <<cacheVars, currentInstanceIndex, catVars, searchVars, resolveVars,
                   normVars, relayVars, optVars, seqVars, overlapVars, debounceVars,
                   cursorVars, feedVars, v_mounted, v_videoId, v_errorRetryCount,
                   v_runs, v_settled>>

\* Lines 440-444 (the button of line 454 shows while playerError holds):
\* errorRetryCount changes, so the effect runs again.
Player_handleRetry ==
    /\ v_mounted /\ v_state.playerError /\ Len(v_runs) < MaxRuns
    /\ v_errorRetryCount' = v_errorRetryCount + 1
    /\ v_state' = [v_state EXCEPT !.playerError = FALSE, !.isLoading = TRUE]
    /\ v_runs' = StartRun(Cleanup(v_runs), v_videoId, v_errorRetryCount + 1)
    /\ UNCHANGED <<cacheVars, currentInstanceIndex, catVars, searchVars, resolveVars,
                   normVars, relayVars, optVars, seqVars, overlapVars, debounceVars,
                   cursorVars, feedVars, v_mounted, v_videoId, v_settled>>

\* The component unmounts: cleanup of the run.
Player_Unmount ==
    /\ v_mounted
    /\ v_mounted' = FALSE /\ v_runs' = Cleanup(v_runs)
    /\ UNCHANGED <<cacheVars, currentInstanceIndex, catVars, searchVars, resolveVars,
                   normVars, relayVars, optVars, seqVars, overlapVars, debounceVars,
                   cursorVars, feedVars, v_videoId, v_errorRetryCount, v_state,
                   v_settled>>

\* loadVideo applying whatever its getVideoDetails delivers, without the
\* tests of isMounted.
Player_Settle_Unguarded(r, outcome) ==
    /\ r \in 1 .. Len(v_runs) /\ v_runs[r].pending
    /\ v_runs' = [v_runs EXCEPT ![r].pending = FALSE, ![r].applied = TRUE]
    /\ v_settled' = r
    /\ v_state' = ApplyOutcome(v_state, v_runs[r], outcome)
    /\ UNCHANGED <<cacheVars, currentInstanceIndex, catVars, searchVars, resolveVars,
                   normVars, relayVars, optVars, seqVars, overlapVars, debounceVars,
                   cursorVars, feedVars, v_mounted, v_videoId, v_errorRetryCount>>

\* Lines 49-52 and 172-178: `await getVideoDetails(videoId)` of run r
\* settles; the run goes on only if its isMounted flag still holds.
Player_Settle(r, outcome) ==
    /\ r \in 1 .. Len(v_runs) /\ v_runs[r].pending
    /\ v_runs' = [v_runs EXCEPT ![r].pending = FALSE,
                                ![r].applied = v_runs[r].isMounted]
    /\ v_settled' = r
    /\ v_state' = IF v_runs[r].isMounted
                  THEN ApplyOutcome(v_state, v_runs[r], outcome)
                  ELSE v_state
    /\ UNCHANGED <<cacheVars, currentInstanceIndex, catVars, searchVars, resolveVars,
                   normVars, relayVars, optVars, seqVars, overlapVars, debounceVars,
                   cursorVars, feedVars, v_mounted, v_videoId, v_errorRetryCount>>

NextPlayer ==
    \/ \E videoId \in PlayerVideoIds : Player_Mount(videoId)
    \/ \E videoId \in PlayerVideoIds : Player_ChangeVideoId(videoId)
    \/ Player_handleError
    \/ Player_handleRetry
    \/ Player_Unmount
    \/ \E r \in 1 .. MaxRuns, outcome \in PlayerOutcomes : Player_Settle(r, outcome)

SpecPlayer == Init /\ [][NextPlayer]_vars

---------------------------------------------------------------------------
(* SpecFeed: the VideoFeed, its category and search handlers and the       *)
(* fetches they start (video-feed.tsx lines 57-124).                       *)

MaxFetches == 3
FeedCategories == {"Trending", "Music"}
FeedQueries == {"", " ", "foo"}

\* Line 104: !query.trim()
Blank(query) == query \in {"", " "}

\* Lines 58-98: handleCategoryChange sets the state and starts its first
\* fetchVideosByCategory.
handleCategoryChange(category) ==
    /\ f_activeCategory' = category
    /\ f_searchQuery' = ""
    /\ f_fetches' = Append(f_fetches, [kind |-> "category", target |-> category,
                                       attempt |-> 0, status |-> "pending"])

\* Lines 126-131 and 152-153: a category is clicked, or the feed mounts.
Feed_handleCategoryClick(category) ==
    /\ Len(f_fetches) < MaxFetches
    /\ handleCategoryChange(category)
    /\ UNCHANGED <<cacheVars, currentInstanceIndex, catVars, searchVars, resolveVars,
                   normVars, relayVars, optVars, seqVars, overlapVars, debounceVars,
                   cursorVars, playerVars, f_timer, f_videos>>

\* Lines 101-124: handleSearch goes back to the category on a blank query
\* and otherwise hands the query to debouncedSearchVideos, which replaces
\* the pending timer.
Feed_handleSearch(query) ==
    /\ Len(f_fetches) + (IF f_timer = "none" THEN 0 ELSE 1) < MaxFetches
    /\ IF Blank(query)
       THEN handleCategoryChange(f_activeCategory) /\ UNCHANGED f_timer
       ELSE /\ f_searchQuery' = query /\ f_timer' = query
            /\ UNCHANGED <<f_activeCategory, f_fetches>>
    /\ UNCHANGED <<cacheVars, currentInstanceIndex, catVars, searchVars, resolveVars,
                   normVars, relayVars, optVars, seqVars, overlapVars, debounceVars,
                   cursorVars, playerVars, f_videos>>

\* invidious-api.ts lines 610-620: the timer fires and searchVideos starts.
Feed_TimerFires ==
    /\ f_timer # "none"
    /\ f_fetches' = Append(f_fetches, [kind |-> "search", target |-> f_timer,
                                       attempt |-> 0, status |-> "pending"])
    /\ f_timer' = "none"
    /\ UNCHANGED <<cacheVars, currentInstanceIndex, catVars, searchVars, resolveVars,
                   normVars, relayVars, optVars, seqVars, overlapVars, debounceVars,
                   cursorVars, playerVars, f_activeCategory, f_searchQuery, f_videos>>

\* Lines 67-96: the fetchVideosByCategory of fetch i settles with records,
\* with none, or by throwing; without records it is tried up to three times.
Feed_CategorySettles(i, outcome) ==
    /\ i \in 1 .. Len(f_fetches)
    /\ f_fetches[i].kind = "category" /\ f_fetches[i].status = "pending"
    /\ IF outcome = "videos"
       THEN /\ f_videos' = [kind |-> "category", target |-> f_fetches[i].target,
                            request |-> i, records |-> TRUE]
            /\ f_fetches' = [f_fetches EXCEPT ![i].status = "videos"]
       ELSE /\ f_fetches' = IF f_fetches[i].attempt < 2
                            THEN [f_fetches EXCEPT ![i].attempt = @ + 1]
                            ELSE [f_fetches EXCEPT ![i].status = "failed"]
            /\ UNCHANGED f_videos
    /\ UNCHANGED <<cacheVars, currentInstanceIndex, catVars, searchVars, resolveVars,
                   normVars, relayVars, optVars, seqVars, overlapVars, debounceVars,
                   cursorVars, playerVars, f_activeCategory, f_searchQuery, f_timer>>

\* Lines 116-123: the callback of the search of fetch i is called with its
\* results, which may be empty.
Feed_SearchSettles(i, records) ==
    /\ i \in 1 .. Len(f_fetches)
    /\ f_fetches[i].kind = "search" /\ f_fetches[i].status = "pending"
    /\ f_videos' = [kind |-> "search", target |-> f_fetches[i].target,
                    request |-> i, records |-> records]
    /\ f_fetches' = [f_fetches EXCEPT ![i].status = IF records THEN "videos" ELSE "failed"]
    /\ UNCHANGED <<cacheVars, currentInstanceIndex, catVars, searchVars, resolveVars,
                   normVars, relayVars, optVars, seqVars, overlapVars, debounceVars,
                   cursorVars, playerVars, f_activeCategory, f_searchQuery, f_timer>>

NextFeed ==
    \/ \E category \in FeedCategories : Feed_handleCategoryClick(category)
    \/ \E query \in FeedQueries : Feed_handleSearch(query)
    \/ Feed_TimerFires
    \/ \E i \in 1 .. MaxFetches, outcome \in {"videos", "empty", "throws"} :
          Feed_CategorySettles(i, outcome)
    \/ \E i \in 1 .. MaxFetches, records \in BOOLEAN : Feed_SearchSettles(i, records)

SpecFeed == Init /\ [][NextFeed]_vars

---------------------------------------------------------------------------
(* C37: a search whose engine call raised leaves the cache as it was.      *)

\* The step is the engine raising inside searchVideos.
EngineRaises == s_op = "search" /\ s_engine = "running" /\ s_engine' = "thrown"

\* The last operation was a search that ended because its engine raised.
SearchFailed == s_op = "search" /\ s_pc = "done" /\ s_engine = "thrown"

\* C37 (SpecSearch).  Failed search leaves the cache untouched: when the
\* engine raises inside searchVideos, the call returns the empty sequence
\* and neither creates, clears nor changes the entry of the query or its
\* timestamp; the engine raises only after a data request, and the same
\* call made next is not answered from the cache but enters the engine
\* again.
C37_FailedSearchKeepsCache ==
    /\ [][EngineRaises
           => /\ s_pc' = "done" /\ s_ret' = <<>>
              /\ videoCache' = videoCache
              /\ cacheTimestamps' = cacheTimestamps]_vars
    /\ [](SearchFailed => s_requests >= 1 /\ s_ret = <<>>)
    /\ [][(SearchFailed /\ SearchCall /\ s_query' = s_query)
           => /\ s_pc' = "select" /\ s_engine' = "running"
              /\ s_requests' = 0 /\ s_probes' = <<>>
              /\ videoCache' = videoCache
              /\ cacheTimestamps' = cacheTimestamps]_vars

\* A search failed over an entry that holds records and had expired: the
\* records and the old timestamp are still there.
C37_Witness ==
    /\ SearchFailed
    /\ Cached(SearchKey(s_query)) /\ videoCache[SearchKey(s_query)] # <<>>
    /\ SearchKey(s_query) \in DOMAIN cacheTimestamps
    /\ cacheTimestamps[SearchKey(s_query)] > 0
    /\ isCacheExpired(SearchKey(s_query))

---------------------------------------------------------------------------
(* C38: the player discards the result of a resolution it no longer waits  *)
(* for.                                                                    *)

\* The step is the getVideoDetails of run r settling.
SettleStep(r) == v_runs[r].pending /\ ~v_runs'[r].pending

\* Run r is the one the player waits for: the component is mounted and the
\* run saw the videoId and the retry count the component has now.
CurrentRun(r) ==
    /\ v_mounted /\ r = Len(v_runs)
    /\ v_runs[r].videoId = v_videoId /\ v_runs[r].retry = v_errorRetryCount

\* C38 (SpecPlayer).  Stale resolution results are discarded by the player:
\* a manifest or error that getVideoDetails delivers to a run of the
\* loading effect changes the player state (urls, duration, ready, error
\* and loading flags) only if the component is still mounted with the
\* videoId and the retry count that run saw; after the videoId changed,
\* the retry count changed or the component unmounted, the result of an
\* earlier run leaves the state as it is, and the result of the run the
\* player waits for is applied.
C38_StaleResultDiscarded ==
    /\ [][\A r \in 1 .. Len(v_runs) :
            (SettleStep(r) /\ v_state' # v_state)
                => /\ v_mounted
                   /\ v_runs[r].videoId = v_videoId
                   /\ v_runs[r].retry = v_errorRetryCount]_vars
    /\ [][\A r \in 1 .. Len(v_runs) :
            (SettleStep(r) /\ ~CurrentRun(r)) => v_state' = v_state]_vars
    /\ [][\A r \in 1 .. Len(v_runs) :
            (SettleStep(r) /\ CurrentRun(r)) => ~v_state'.isLoading]_vars
    /\ [](\A r \in 1 .. Len(v_runs) : v_runs[r].isMounted => CurrentRun(r))

\* The resolution for an earlier videoId settled while the player waits for
\* the one of its present videoId: the state shows nothing of the earlier.
C38_Witness ==
    /\ v_mounted /\ v_settled # 0 /\ v_settled < Len(v_runs)
    /\ v_runs[v_settled].videoId # v_videoId /\ ~v_runs[v_settled].applied
    /\ v_runs[Len(v_runs)].pending
    /\ v_state.isLoading /\ v_state.directUrls = "none" /\ ~v_state.playerError

---------------------------------------------------------------------------
(* C39: what the feed shows once every fetch it started has settled.       *)

\* Fetch i asked for what the feed has active now: the search query if
\* there is one, the active category otherwise.
ForActive(i) ==
    IF f_searchQuery # ""
    THEN f_fetches[i].kind = "search" /\ f_fetches[i].target = f_searchQuery
    ELSE f_fetches[i].kind = "category" /\ f_fetches[i].target = f_activeCategory

\* No timer is pending and no fetch is in flight.
AllSettled ==
    /\ f_timer = "none"
    /\ \A i \in 1 .. Len(f_fetches) : f_fetches[i].status # "pending"

\* The latest fetch for what is active delivered records.
ActiveDelivered ==
    \E i \in 1 .. Len(f_fetches) :
        /\ ForActive(i) /\ f_fetches[i].status = "videos"
        /\ \A j \in i + 1 .. Len(f_fetches) : ~ForActive(j)

\* C39 (SpecFeed), as stated.  Displayed list matches the active query:
\* once all the fetches of the feed have settled, and the latest one for
\* the active category or search query delivered records, the list shown
\* is a result for that category or query and not the result of a request
\* it superseded.
C39_DisplayMatchesActive ==
    (AllSettled /\ ActiveDelivered)
        => /\ f_videos.records
           /\ f_videos.kind = (IF f_searchQuery # "" THEN "search" ELSE "category")
           /\ f_videos.target = (IF f_searchQuery # "" THEN f_searchQuery
                                 ELSE f_activeCategory)

---------------------------------------------------------------------------
(* C40: when the relay answers with the placeholder payload.               *)

\* The relay has answered after its upstream request failed: a status that
\* is not ok, the abort by the timeout, or a transport error (a redirect
\* that fetch does not follow any further among them).
UpstreamFailed ==
    p_pc = "done" /\ p_outcome \in {"status", "timeout", "network", "redirect"}

\* The answer is an { error } object under an error status.
ErrorAnswer == p_response.body = "error" /\ p_response.status >= 400

\* C40 (SpecRelay), as stated.  Relay fallback substitution: when the
\* upstream request fails and allowFallback is not "false", the relay
\* answers 200 with the placeholder payload; when allowFallback is "false"
\* it answers with an error status and never with the placeholder.
C40_FallbackSubstitution ==
    /\ (UpstreamFailed /\ p_allowFallback) => p_response = RelayResponse(200, "fallback")
    /\ (UpstreamFailed /\ ~p_allowFallback) => ErrorAnswer
    /\ (p_response.body = "fallback") => p_allowFallback

\* C40 (SpecRelay), amended.  When the upstream request fails, allowFallback
\* is not "false" and the url contains '/videos/' or '/streams/', the relay
\* answers 200 with the placeholder payload; when the upstream request
\* fails and allowFallback is "false" or the url contains neither, it
\* answers with an error status; no answer carries the placeholder unless
\* the upstream request failed, allowFallback is not "false" and the url
\* is such a url.
C40_FallbackOnStreams ==
    /\ (UpstreamFailed /\ p_allowFallback /\ p_url.streams)
          => p_response = RelayResponse(200, "fallback")
    /\ (UpstreamFailed /\ ~(p_allowFallback /\ p_url.streams)) => ErrorAnswer
    /\ (p_response.body = "fallback")
          => (UpstreamFailed /\ p_allowFallback /\ p_url.streams)

\* The upstream request of a url with neither '/videos/' nor '/streams/'
\* timed out with fallback permitted, and the relay answered 504.
C40_Witness ==
    /\ p_pc = "done" /\ p_outcome = "timeout"
    /\ p_allowFallback /\ ~p_url.streams
    /\ p_response = RelayResponse(504, "error")

=============================================================================
